---- MODULE Spec2Model ----
(***************************************************************************)
(* A state-machine model of the constellation backend:                     *)
(*   - the expense service's ledger (accounts, transactions, balances),    *)
(*     services/expense_service/app/logic.py;                              *)
(*   - the auth service's credential and session lifecycle,                *)
(*     services/auth_service/app/auth_logic.py.                            *)
(*                                                                         *)
(* Document stores are functions from document id to document.  ObjectIds  *)
(* are positive integers handed out by per-collection counters and never   *)
(* reused; None (0) is Python's None.  Amounts and balances are integers   *)
(* (the code uses floats; rounding is not modelled).  current_user.id and  *)
(* current_user._id are both read as the acting user's id.                 *)
(***************************************************************************)
EXTENDS Integers, Sequences, FiniteSets, TLC

VARIABLES
    users,          \* db.users: id -> [email, hashed_password, verified]
    sessions,       \* db.sessions: id -> [user_id, refresh_token_hash, expires_at]
    groups,         \* db.groups: id -> [name, owner_id, members]
    categories,     \* db.categories: id -> [name, type, icon, user_id]
    accounts,       \* db.accounts: id -> [name, user_id, group_id, initial_balance,
                    \*                     balance, is_archived]
    transactions,   \* db.transactions: id -> [type, amount, account_id, user_id, payer_id,
                    \*                         group_id, description, transaction_date,
                    \*                         category, created_at, updated_at]
    nextId,         \* per-collection ObjectId counters
    now,            \* the clock (datetime.now), in units of RefreshTokenTtl
    proc,           \* in-flight refresh_access_token requests, one per client slot
    hist,           \* history: the tokens a refresh found a session for (used) or
                    \* rotated, the issued tokens logged out, the users given an
                    \* access token, the <<caller, user>> of each verify_user
                    \* that set a flag
    last,           \* the response of the handler that ran last: [op, status, tokens,
                    \* body, items]
    log             \* the calls made so far (recorded only by SpecScenario)

vars == <<users, sessions, groups, categories, accounts, transactions,
          nextId, now, proc, hist, last, log>>

authVars == <<users, sessions, now, proc, hist>>
authVars_but_proc == <<users, sessions, now, hist>>
ledgerVars == <<groups, categories, accounts, transactions>>

----------------------------------------------------------------------------
(* Bounds of the model *)

MaxAccounts == 2
MaxTx == 2
MaxLog == 3
MaxUsers == 3
MaxTokens == 2
MaxTime == 2
MaxCategories == 4
MaxGroups == 2

(* Python's None *)
None == 0

Amounts == {30, 50}
InitialBalances == {100}
TxTypes == {"expense", "income"}

----------------------------------------------------------------------------
(* None in a field that otherwise holds a string *)
Null == "null"

(* Responses: the handler that answered, the HTTP status, the token pair
   of a TokenResponse (<<access_token, refresh_token>>, or <<>>), and the
   JSON body where the model reads it (the detail of an HTTPException, the
   fields of a UserPublic) *)

NoBody ==
    [detail |-> "", user_id |-> None, email |-> "", first_name |-> Null,
     last_name |-> Null, verified |-> FALSE]


Resp(op, status) ==
    [op |-> op, status |-> status, tokens |-> <<>>, body |-> NoBody, items |-> {}]
WithBody(r, body) == [r EXCEPT !.body = body]
(* A response that is a list of documents, given by their ids *)
WithItems(r, items) == [r EXCEPT !.items = items]
Ok(op) == Resp(op, "200")
Created(op) == Resp(op, "201")
NoContent(op) == Resp(op, "204")
BadRequest(op) == Resp(op, "400")
Unauthorized(op) == Resp(op, "401")
Forbidden(op) == Resp(op, "403")
NotFound(op) == Resp(op, "404")
Conflict(op) == Resp(op, "409")
InternalError(op) == Resp(op, "500")
TokenResponse(op, access_token, refresh_token) ==
    [op |-> op, status |-> "200", tokens |-> <<access_token, refresh_token>>,
     body |-> NoBody, items |-> {}]

Succeeded(r) == r.status \in {"200", "201", "204"}

----------------------------------------------------------------------------
(* The ledger: services/expense_service/app/logic.py *)

(* A function without the key k (delete_one on _id) *)
Without(f, k) == [x \in DOMAIN f \ {k} |-> f[x]]

(* A function with the key k bound to v (insert_one) *)
With(f, k, v) == [x \in DOMAIN f \cup {k} |-> IF x = k THEN v ELSE f[x]]

(* create_account: a personal account of the acting user, or a group's
   account (the membership of the acting user is not checked) *)
CreateAccount(u, d) ==
    /\ nextId.account <= MaxAccounts
    /\ LET owner == IF d.group_id # None
                    THEN [user_id |-> None, group_id |-> d.group_id]
                    ELSE [user_id |-> u, group_id |-> None]
           doc == [name |-> d.name,
                   user_id |-> owner.user_id,
                   group_id |-> owner.group_id,
                   initial_balance |-> d.initial_balance,
                   balance |-> d.initial_balance,
                   is_archived |-> FALSE]
       IN /\ accounts' = With(accounts, nextId.account, doc)
          /\ nextId' = [nextId EXCEPT !.account = @ + 1]
    /\ last' = Created("create_account")
    /\ UNCHANGED <<authVars, groups, categories, transactions>>

(* list_accounts, lines 61-62: the groups of the acting user are a
   placeholder, the empty list *)
user_groups(u) == {}

(* list_accounts: the ids that db.accounts.find(query) returns *)
list_accounts(u) ==
    {a \in DOMAIN accounts :
        /\ accounts[a].user_id = u \/ accounts[a].group_id \in user_groups(u)
        /\ accounts[a].is_archived = FALSE}

ListAccounts(u) ==
    /\ last' = WithItems(Ok("list_accounts"), list_accounts(u))
    /\ UNCHANGED <<authVars, ledgerVars, nextId>>

(* A faulty variant of the account patch: the balance is set back to
   initial_balance *)
ApplyAccountPatch_resets_balance(doc, p) ==
    [doc EXCEPT
        !.name = IF "name" \in p.set THEN p.name ELSE @,
        !.is_archived = IF "is_archived" \in p.set THEN p.is_archived ELSE @,
        !.balance = doc.initial_balance]

(* update_doc of update_account: the fields the request sets *)
ApplyAccountPatch(doc, p) ==
    [doc EXCEPT
        !.name = IF "name" \in p.set THEN p.name ELSE @,
        !.is_archived = IF "is_archived" \in p.set THEN p.is_archived ELSE @]

(* update_account *)
UpdateAccount(u, a, p) ==
    /\ IF ~(a \in DOMAIN accounts /\ accounts[a].user_id = u)
       THEN /\ last' = NotFound("update_account")
            /\ UNCHANGED accounts
       ELSE IF p.set = {}
       THEN /\ last' = Ok("update_account")
            /\ UNCHANGED accounts
       ELSE /\ accounts' = [accounts EXCEPT ![a] = ApplyAccountPatch(@, p)]
            /\ last' = Ok("update_account")
    /\ UNCHANGED <<authVars, groups, categories, transactions, nextId>>

(* A faulty variant of archive_account: the balance is not looked at *)
ArchiveAccount_any_balance(u, a) ==
    /\ IF ~(a \in DOMAIN accounts /\ accounts[a].user_id = u)
       THEN /\ last' = NotFound("archive_account")
            /\ UNCHANGED accounts
       ELSE /\ accounts' = [accounts EXCEPT ![a].is_archived = TRUE]
            /\ last' = NoContent("archive_account")
    /\ UNCHANGED <<authVars, groups, categories, transactions, nextId>>

(* archive_account *)
ArchiveAccount(u, a) ==
    /\ IF ~(a \in DOMAIN accounts /\ accounts[a].user_id = u)
       THEN /\ last' = NotFound("archive_account")
            /\ UNCHANGED accounts
       ELSE IF accounts[a].balance # 0
       THEN /\ last' = BadRequest("archive_account")
            /\ UNCHANGED accounts
       ELSE /\ accounts' = [accounts EXCEPT ![a].is_archived = TRUE]
            /\ last' = NoContent("archive_account")
    /\ UNCHANGED <<authVars, groups, categories, transactions, nextId>>

(* A faulty variant of update_balance: the sign is always positive *)
update_balance_always_add(accs, account_id, amount, operation) ==
    IF account_id \in DOMAIN accs
    THEN [accs EXCEPT ![account_id].balance = @ + amount]
    ELSE accs

(* update_balance: db.accounts.update_one({_id}, {$inc: {balance: modifier}});
   an _id that matches no account updates nothing *)
update_balance(accs, account_id, amount, operation) ==
    LET modifier == IF operation = "add" THEN amount ELSE -amount
    IN IF account_id \in DOMAIN accs
       THEN [accs EXCEPT ![account_id].balance = @ + modifier]
       ELSE accs

(* create_category: a category of the acting user, unless the user has one
   of that name and type *)
CreateCategory(u, d) ==
    /\ IF \E c \in DOMAIN categories :
              /\ categories[c].name = d.name
              /\ categories[c].type = d.type
              /\ categories[c].user_id = u
       THEN /\ last' = Conflict("create_category")
            /\ UNCHANGED <<categories, nextId>>
       ELSE /\ nextId.category <= MaxCategories
            /\ categories' = With(categories, nextId.category,
                                  [name |-> d.name, type |-> d.type,
                                   icon |-> d.icon, user_id |-> u])
            /\ nextId' = [nextId EXCEPT !.category = @ + 1]
            /\ last' = Created("create_category")
    /\ UNCHANGED <<authVars, groups, accounts, transactions>>

(* A faulty variant of the category lookup of update_category and
   delete_category: a default category is found too *)
OwnCategory_or_default(c, u) ==
    c \in DOMAIN categories /\ categories[c].user_id \in {u, None}

(* db.categories.find_one({"_id": c, "user_id": u}) finds the category *)
OwnCategory(c, u) == c \in DOMAIN categories /\ categories[c].user_id = u

(* A faulty variant of the in-use lookup: it never finds a transaction *)
CategoryInUse_never(c, u) == FALSE

(* db.transactions.find_one({"category._id": c, "user_id": u}) finds one *)
CategoryInUse(c, u) ==
    \E t \in DOMAIN transactions :
        transactions[t].category.id = c /\ transactions[t].user_id = u

(* delete_category *)
DeleteCategory(u, c) ==
    /\ IF ~OwnCategory(c, u)
       THEN /\ last' = NotFound("delete_category")
            /\ UNCHANGED categories
       ELSE IF CategoryInUse(c, u)
       THEN /\ last' = BadRequest("delete_category")
            /\ UNCHANGED categories
       ELSE /\ categories' = Without(categories, c)
            /\ last' = NoContent("delete_category")
    /\ UNCHANGED <<authVars, groups, accounts, transactions, nextId>>

(* update_doc: the fields the patch sets (model_dump(exclude_unset=True)) *)
Has(p, f) == f \in p.set

(* A faulty variant of the empty-patch test: it never holds *)
NoFieldsSet_never(p) == FALSE

(* "if not update_doc": the request set no field *)
NoFieldsSet(p) == p.set = {}

(* $set of update_doc on a category document *)
ApplyCategoryPatch(doc, p) ==
    [doc EXCEPT
        !.name = IF Has(p, "name") THEN p.name ELSE @,
        !.icon = IF Has(p, "icon") THEN p.icon ELSE @]

(* update_category: the caller's own category is patched; no lookup of the
   caller's other categories precedes the $set *)
UpdateCategory(u, c, p) ==
    /\ IF ~OwnCategory(c, u)
       THEN /\ last' = NotFound("update_category")
            /\ UNCHANGED categories
       ELSE IF NoFieldsSet(p)
       THEN /\ last' = BadRequest("update_category")
            /\ UNCHANGED categories
       ELSE /\ categories' = [categories EXCEPT ![c] = ApplyCategoryPatch(@, p)]
            /\ last' = Ok("update_category")
    /\ UNCHANGED <<authVars, groups, accounts, transactions, nextId>>

(* A faulty variant of the account lookup: every id passes *)
ActiveAccount_any(accs, a) == TRUE

(* db.accounts.find_one({"_id": a, "is_archived": False}) finds an account *)
ActiveAccount(accs, a) == a \in DOMAIN accs /\ accs[a].is_archived = FALSE

(* A faulty variant of the category lookup: the owner is not asked for *)
AccessibleCategory_any_owner(c, u) == c \in DOMAIN categories

(* The category the acting user may embed: their own or a default one *)
AccessibleCategory(c, u) ==
    /\ c \in DOMAIN categories
    /\ categories[c].user_id \in {u, None}

(* A faulty variant of the snapshot: the icon is left out *)
CategoryEmbedded_without_icon(c) ==
    [id |-> c, name |-> categories[c].name, icon |-> Null]

(* CategoryEmbedded: the snapshot {_id, name, icon} *)
CategoryEmbedded(c) ==
    [id |-> c, name |-> categories[c].name, icon |-> categories[c].icon]

(* A faulty variant of the payer rule: every payer passes *)
PayerAllowed_anyone(u, payer, group_id) == TRUE

(* The payer rule of create_transaction (lines 172-194) *)
PayerAllowed(u, payer, group_id) ==
    IF group_id # None
    THEN group_id \in DOMAIN groups /\ payer \in groups[group_id].members
    ELSE payer = u

(* TransactionBase.transaction_date: default_factory=datetime.now when the
   request leaves it out *)
TxDate(d) == IF "transaction_date" \in DOMAIN d THEN d.transaction_date ELSE now

(* transaction_doc of create_transaction (lines 151-176): the request's
   fields, the acting user, the category snapshot, the two timestamps and the
   payer, the acting user when the request leaves it out *)
TransactionDoc(u, d) ==
    [type |-> d.type,
     amount |-> d.amount,
     account_id |-> d.account_id,
     user_id |-> u,
     payer_id |-> IF d.payer_id = None THEN u ELSE d.payer_id,
     group_id |-> d.group_id,
     description |-> d.description,
     transaction_date |-> TxDate(d),
     category |-> CategoryEmbedded(d.category_id),
     created_at |-> now,
     updated_at |-> now]

(* Line 200: the operation create_transaction hands to update_balance *)
BalanceOperation(d) == IF d.type = "income" THEN "income" ELSE "subtract"

(* create_transaction *)
CreateTransaction(u, d) ==
    /\ nextId.tx <= MaxTx
    /\ LET payer == IF d.payer_id = None THEN u ELSE d.payer_id
           doc == TransactionDoc(u, d)
           operation == BalanceOperation(d)
       IN IF ~AccessibleCategory(d.category_id, u)
          THEN /\ last' = NotFound("create_transaction")
               /\ UNCHANGED <<accounts, transactions, nextId>>
          ELSE IF ~ActiveAccount(accounts, d.account_id)
          THEN /\ last' = NotFound("create_transaction")
               /\ UNCHANGED <<accounts, transactions, nextId>>
          ELSE IF ~PayerAllowed(u, payer, d.group_id)
          THEN /\ last' = Forbidden("create_transaction")
               /\ UNCHANGED <<accounts, transactions, nextId>>
          ELSE /\ transactions' = With(transactions, nextId.tx, doc)
               /\ nextId' = [nextId EXCEPT !.tx = @ + 1]
               /\ accounts' = update_balance(accounts, d.account_id, d.amount, operation)
               /\ last' = Created("create_transaction")
    /\ UNCHANGED <<authVars, groups, categories>>

(* $set of update_doc on a transaction document, updated_at included
   (line 288) *)
ApplyPatch(doc, p) ==
    [doc EXCEPT
        !.type = IF Has(p, "type") THEN p.type ELSE @,
        !.amount = IF Has(p, "amount") THEN p.amount ELSE @,
        !.account_id = IF Has(p, "account_id") THEN p.account_id ELSE @,
        !.group_id = IF Has(p, "group_id") THEN p.group_id ELSE @,
        !.description = IF Has(p, "description") THEN p.description ELSE @,
        !.transaction_date = IF Has(p, "transaction_date")
                             THEN p.transaction_date ELSE @,
        !.category = IF Has(p, "category_id")
                     THEN CategoryEmbedded(p.category_id) ELSE @,
        !.updated_at = now]

(* Step 3a of update_transaction and step 2 of delete_transaction: undo the
   effect of the document on its account, when it names one *)
ReverseEffect(accs, doc) ==
    IF doc.account_id # None
    THEN update_balance(accs, doc.account_id, doc.amount,
                        IF doc.type = "income" THEN "subtract" ELSE "add")
    ELSE accs

(* Step 3b of update_transaction: apply the effect of the updated document *)
ApplyEffect(accs, doc) ==
    IF doc.account_id # None
    THEN update_balance(accs, doc.account_id, doc.amount,
                        IF doc.type = "income" THEN "add" ELSE "subtract")
    ELSE accs

(* The clock units in a month: list_transactions selects
   [start_of_month, start_of_month + relativedelta(months=1)) *)
MonthLen == 2

(* match_criteria of list_transactions (lines 218-231): user_id is the
   acting user's on both branches; the branch without group_id sets it again
   and asks for group_id null *)
match_criteria(doc, u, month, group_id) ==
    /\ doc.user_id = u
    /\ doc.transaction_date >= month * MonthLen
    /\ doc.transaction_date < (month + 1) * MonthLen
    /\ doc.group_id = group_id

(* list_transactions: 403 unless the acting user is a member of the group
   asked for; the ids the pipeline's $match returns *)
ListTransactions(u, month, group_id) ==
    /\ IF group_id # None
          /\ ~(group_id \in DOMAIN groups /\ u \in groups[group_id].members)
       THEN last' = Forbidden("list_transactions")
       ELSE last' = WithItems(Ok("list_transactions"),
                        {t \in DOMAIN transactions :
                            match_criteria(transactions[t], u, month, group_id)})
    /\ UNCHANGED <<authVars, ledgerVars, nextId>>

(* A faulty variant of the transaction lookup: user_id is not asked for *)
OwnTransaction_any_user(t, u) == t \in DOMAIN transactions

(* db.transactions.find_one({"_id": t, "user_id": u}) finds the transaction *)
OwnTransaction(t, u) == t \in DOMAIN transactions /\ transactions[t].user_id = u

(* update_transaction *)
UpdateTransaction(u, t, p) ==
    /\ IF ~OwnTransaction(t, u)
       THEN /\ last' = NotFound("update_transaction")
            /\ UNCHANGED <<accounts, transactions>>
       ELSE IF Has(p, "category_id") /\ ~AccessibleCategory(p.category_id, u)
       THEN /\ last' = NotFound("update_transaction")
            /\ UNCHANGED <<accounts, transactions>>
       ELSE IF NoFieldsSet(p)
       THEN /\ last' = Ok("update_transaction")
            /\ UNCHANGED <<accounts, transactions>>
       ELSE LET original_transaction == transactions[t]
                updated_transaction == ApplyPatch(original_transaction, p)
            IN /\ transactions' = [transactions EXCEPT ![t] = updated_transaction]
               /\ accounts' = ApplyEffect(ReverseEffect(accounts, original_transaction),
                                          updated_transaction)
               /\ last' = Ok("update_transaction")
    /\ UNCHANGED <<authVars, groups, categories, nextId>>

(* delete_transaction *)
DeleteTransaction(u, t) ==
    /\ IF ~OwnTransaction(t, u)
       THEN /\ last' = NotFound("delete_transaction")
            /\ UNCHANGED <<accounts, transactions>>
       ELSE /\ accounts' = ReverseEffect(accounts, transactions[t])
            /\ transactions' = Without(transactions, t)
            /\ last' = NoContent("delete_transaction")
    /\ UNCHANGED <<authVars, groups, categories, nextId>>

----------------------------------------------------------------------------
(* The auth service: services/auth_service/app/auth_logic.py *)

(* The clients that may have a refresh request in flight *)
Procs == {"p1", "p2"}

AdminEmail == "admin@x.com"
Emails == {AdminEmail, "a@x.com"}
(* The emails of SpecUsers and SpecGroups: one more address *)
UserEmails == Emails \cup {"b@x.com"}
Passwords == {"pw123456", "pw654321"}
Salts == {"salt"}

(* timedelta(days=7), in units of the clock *)
RefreshTokenTtl == 1

(* hash_password: bcrypt of the password under a salt *)
hash_password(password, salt) ==
    [alg |-> "bcrypt", salt |-> salt, digest |-> <<salt, password>>]

(* verify_password: bcrypt.checkpw re-derives the digest under the stored salt *)
verify_password(plain_password, hashed_password) ==
    hash_password(plain_password, hashed_password.salt) = hashed_password

(* secrets.token_hex(32): the n-th token drawn; no two draws collide *)
RawToken(n) == [n |-> n, sha |-> 0]

(* A refresh token no handler ever issued *)
ForgedToken == RawToken(0)

(* A faulty variant of sha256: the token itself is stored *)
sha256_identity(x) == x

(* hashlib.sha256(x).hexdigest(): injective, and never equal to its input *)
sha256(x) == [n |-> x.n, sha |-> x.sha + 1]

(* create_access_token: the claims of the JWT (exp is not modelled) *)
create_access_token(uid) ==
    [sub |-> uid, email |-> users[uid].email, type |-> "access"]

(* The session document of create_refresh_token *)
SessionDoc(uid, refresh_token) ==
    [user_id |-> uid,
     refresh_token_hash |-> sha256(refresh_token),
     expires_at |-> now + RefreshTokenTtl]

(* create_refresh_token: draws a token and inserts its session *)
create_refresh_token(uid) ==
    /\ sessions' = With(sessions, nextId.session,
                        SessionDoc(uid, RawToken(nextId.token)))
    /\ nextId' = [nextId EXCEPT !.session = @ + 1, !.token = @ + 1]

(* A faulty variant of the email lookup: it never finds a user *)
UsersByEmail_none(email) == {}

(* db.users.find_one({"email": email}) *)
UsersByEmail(email) == {u \in DOMAIN users : users[u].email = email}

SessionsByHash(h) == {s \in DOMAIN sessions : sessions[s].refresh_token_hash = h}

(* A token is left to be drawn within the bound of the model *)
TokensLeft == nextId.token <= MaxTokens

(* A faulty variant of UserPublic: the id is left out *)
UserPublic_no_id(uid, doc) ==
    [detail |-> "", user_id |-> None, email |-> doc.email,
     first_name |-> doc.first_name, last_name |-> doc.last_name,
     verified |-> doc.verified]

(* UserPublic.model_validate of a user document *)
UserPublic(uid, doc) ==
    [detail |-> "", user_id |-> uid, email |-> doc.email,
     first_name |-> doc.first_name, last_name |-> doc.last_name,
     verified |-> doc.verified]

DuplicateEmailDetail == "User with this email already exists."

(* create_user (POST /signup); a name the request omits is Null *)
Signup(email, password, salt, first_name, last_name) ==
    /\ LET new_user_doc == [email |-> email,
                            first_name |-> first_name,
                            last_name |-> last_name,
                            hashed_password |-> hash_password(password, salt),
                            verified |-> FALSE]
       IN IF UsersByEmail(email) # {}
          THEN /\ last' = WithBody(Conflict("create_user"),
                                   [NoBody EXCEPT !.detail = DuplicateEmailDetail])
               /\ UNCHANGED <<users, nextId>>
          ELSE /\ nextId.user <= MaxUsers
               /\ users' = With(users, nextId.user, new_user_doc)
               /\ nextId' = [nextId EXCEPT !.user = @ + 1]
               /\ last' = WithBody(Created("create_user"),
                                   UserPublic(nextId.user, new_user_doc))
    /\ UNCHANGED <<sessions, now, proc, hist, ledgerVars>>

(* A faulty variant of get_current_admin_user: every caller passes *)
get_current_admin_user_anyone(caller) == TRUE

(* get_current_admin_user: the caller's email is the configured admin email *)
get_current_admin_user(caller) == users[caller].email = AdminEmail

(* verify_user behind get_current_admin_user (PATCH /admin/users/{id}/verify);
   the caller presents an access token issued earlier *)
VerifyUser(caller, user_id) ==
    /\ caller \in hist.subs
    /\ IF ~get_current_admin_user(caller)
       THEN /\ last' = Forbidden("verify_user")
            /\ UNCHANGED <<users, hist>>
       ELSE IF user_id \notin DOMAIN users
       THEN /\ last' = NotFound("verify_user")
            /\ UNCHANGED <<users, hist>>
       ELSE /\ users' = [users EXCEPT ![user_id].verified = TRUE]
            /\ hist' = [hist EXCEPT !.verifiedBy =
                            IF users[user_id].verified
                            THEN @ ELSE @ \cup {<<caller, user_id>>}]
            /\ last' = Ok("verify_user")
    /\ UNCHANGED <<sessions, nextId, now, proc, ledgerVars>>

(* A faulty variant of the credential check: any password is accepted *)
CredentialsValid_any_password(u, password) == TRUE

(* login_user, line 95: the password matches the stored hash of the user found *)
CredentialsValid(u, password) ==
    verify_password(password, users[u].hashed_password)

(* A faulty variant of the verification check: it is left out *)
MayLogin_unverified(u) == TRUE

(* login_user, line 100: only a verified user is given tokens *)
MayLogin(u) == users[u].verified

(* login_user (POST /login) *)
Login(email, password) ==
    /\ IF UsersByEmail(email) = {}
       THEN /\ last' = Unauthorized("login_user")
            /\ UNCHANGED <<sessions, nextId, hist>>
       ELSE \E u \in UsersByEmail(email) :
            IF ~CredentialsValid(u, password)
            THEN /\ last' = Unauthorized("login_user")
                 /\ UNCHANGED <<sessions, nextId, hist>>
            ELSE IF ~MayLogin(u)
            THEN /\ last' = Forbidden("login_user")
                 /\ UNCHANGED <<sessions, nextId, hist>>
            ELSE /\ TokensLeft
                 /\ create_refresh_token(u)
                 /\ last' = TokenResponse("login_user", create_access_token(u),
                                          RawToken(nextId.token))
                 /\ hist' = [hist EXCEPT !.subs = @ \cup {u}]
    /\ UNCHANGED <<users, now, proc, ledgerVars>>

IdleProc ==
    [pc |-> "idle", tok |-> ForgedToken, user_id |-> None, resp |-> Resp("none", "none")]

DoneProc(t, resp) ==
    [pc |-> "done", tok |-> t, user_id |-> None, resp |-> resp]

(* A faulty variant of find_one_and_delete: find_one, the session stays *)
find_one_without_delete(docs, s) == docs

(* The store after db.sessions.find_one_and_delete returned the session s *)
find_one_and_delete(docs, s) == Without(docs, s)

(* refresh_access_token, lines 114-118: client p presents the refresh token t;
   the session is found and deleted in one step of the store, then checked *)
RefreshFindAndDelete(p, t) ==
    /\ proc[p].pc # "issue"
    /\ IF SessionsByHash(sha256(t)) = {}
       THEN /\ proc' = [proc EXCEPT ![p] = DoneProc(t, Unauthorized("refresh_access_token"))]
            /\ UNCHANGED <<sessions, hist>>
       ELSE \E s \in SessionsByHash(sha256(t)) :
            /\ sessions' = find_one_and_delete(sessions, s)
            /\ hist' = [hist EXCEPT !.used = @ \cup {t}]
            /\ IF sessions[s].expires_at < now
               THEN proc' = [proc EXCEPT
                                ![p] = DoneProc(t, Unauthorized("refresh_access_token"))]
               ELSE proc' = [proc EXCEPT
                                ![p] = [pc |-> "issue", tok |-> t,
                                        user_id |-> sessions[s].user_id,
                                        resp |-> Resp("none", "none")]]
    /\ UNCHANGED <<users, nextId, now, last, ledgerVars>>

(* refresh_access_token, lines 120-128: the user is looked up and the new
   pair is issued *)
RefreshIssue(p) ==
    /\ proc[p].pc = "issue"
    /\ IF proc[p].user_id \notin DOMAIN users
       THEN /\ proc' = [proc EXCEPT
                           ![p] = DoneProc(proc[p].tok, Unauthorized("refresh_access_token"))]
            /\ UNCHANGED <<sessions, nextId, hist>>
       ELSE /\ TokensLeft
            /\ create_refresh_token(proc[p].user_id)
            /\ proc' = [proc EXCEPT
                           ![p] = DoneProc(proc[p].tok,
                                           TokenResponse("refresh_access_token",
                                                         create_access_token(proc[p].user_id),
                                                         RawToken(nextId.token)))]
            /\ hist' = [hist EXCEPT !.rotated = @ \cup {proc[p].tok},
                                    !.subs = @ \cup {proc[p].user_id}]
    /\ UNCHANGED <<users, now, last, ledgerVars>>

(* A faulty variant of delete_one: every session of the token's user goes *)
delete_one_all_of_user(docs, s) ==
    [x \in {y \in DOMAIN docs : docs[y].user_id # docs[s].user_id} |-> docs[x]]

(* The store after db.sessions.delete_one matched the session s *)
delete_one(docs, s) == Without(docs, s)

(* logout_user (POST /logout) *)
Logout(t) ==
    /\ IF SessionsByHash(sha256(t)) = {}
       THEN UNCHANGED sessions
       ELSE \E s \in SessionsByHash(sha256(t)) : sessions' = delete_one(sessions, s)
    /\ hist' = [hist EXCEPT !.loggedOut = @ \cup ({t} \ {ForgedToken})]
    /\ last' = NoContent("logout_user")
    /\ UNCHANGED <<users, nextId, now, proc, ledgerVars>>

(* Time passes *)
Tick ==
    /\ now < MaxTime
    /\ now' = now + 1
    /\ UNCHANGED <<users, sessions, nextId, proc, hist, last, ledgerVars>>

----------------------------------------------------------------------------
(* Inputs of the requests *)

Descriptions == {"lunch"}

AccountInputs ==
    [name : {"cash"}, initial_balance : InitialBalances, group_id : {None}]

AccountIdInputs == (1 .. MaxAccounts) \cup {None}

(* create_transaction requests: every type, amount and account with the
   default category and the default payer, and requests naming a category of
   another user or a payer other than the acting user *)
TxInputs ==
    {d \in [type : TxTypes, amount : Amounts, account_id : AccountIdInputs,
            category_id : {1, 2}, group_id : {None}, payer_id : {None, 2},
            description : Descriptions] :
        (d.category_id = 2 \/ d.payer_id = 2) => (d.type = "expense" /\ d.amount = 30)}

(* The patches: a field outside p.set carries a fixed filler that is never
   read.  Every combination of type, amount and account_id, and patches of
   the category or of the description alone *)
Patches ==
    {p \in [set : SUBSET {"type", "amount", "account_id", "category_id", "description"},
            type : TxTypes, amount : Amounts,
            account_id : 1 .. MaxAccounts, category_id : {1, 2},
            group_id : {None}, description : Descriptions] :
        /\ "type" \in p.set \/ p.type = "expense"
        /\ "amount" \in p.set \/ p.amount = 30
        /\ "account_id" \in p.set \/ p.account_id = 1
        /\ "category_id" \in p.set \/ p.category_id = 1
        /\ "category_id" \in p.set => p.set = {"category_id"}
        /\ "description" \in p.set => p.set = {"description"}}

----------------------------------------------------------------------------
(* The ledger, its handlers run one at a time *)

Empty == [x \in {} |-> None]

SeedUsers ==
    [u \in 1 .. 2 |->
        [email |-> IF u = 1 THEN "a@x.com" ELSE AdminEmail,
         first_name |-> Null,
         last_name |-> Null,
         hashed_password |-> hash_password("pw123456", "salt"),
         verified |-> TRUE]]

(* A default category of seed_database.py and a category of a third user *)
SeedCategories ==
    [c \in 1 .. 2 |->
        IF c = 1
        THEN [name |-> "food", type |-> "expense", icon |-> "burger", user_id |-> None]
        ELSE [name |-> "salary", type |-> "income", icon |-> "coin", user_id |-> 3]]

SeedGroups == [g \in {1} |-> [name |-> "home", owner_id |-> 1, members |-> {1}]]

NoResponse == Resp("none", "none")

LedgerInit ==
    /\ users = SeedUsers
    /\ sessions = Empty
    /\ groups = SeedGroups
    /\ categories = SeedCategories
    /\ accounts = Empty
    /\ transactions = Empty
    /\ nextId = [account |-> 1, tx |-> 1, category |-> 3, group |-> 2,
                 user |-> 3, session |-> 1, token |-> 1]
    /\ now = 0
    /\ proc = [p \in Procs |-> IdleProc]
    /\ hist = [used |-> {}, rotated |-> {}, loggedOut |-> {}, verifiedBy |-> {}, subs |-> {1, 2}]
    /\ last = NoResponse
    /\ log = <<>>

(* User 1 keeps the ledger; user 2 tries the same calls on it *)
Owner == 1

IntruderPatches == {p \in Patches : p.set \subseteq {"amount"}}

Next ==
    \/ \E d \in AccountInputs : CreateAccount(Owner, d) /\ UNCHANGED log
    \/ \E u \in DOMAIN users, a \in 1 .. MaxAccounts :
            ArchiveAccount(u, a) /\ UNCHANGED log
    \/ \E d \in TxInputs : CreateTransaction(Owner, d) /\ UNCHANGED log
    \/ \E t \in 1 .. MaxTx, p \in Patches :
            UpdateTransaction(Owner, t, p) /\ UNCHANGED log
    \/ \E u \in DOMAIN users \ {Owner}, t \in 1 .. MaxTx, p \in IntruderPatches :
            UpdateTransaction(u, t, p) /\ UNCHANGED log
    \/ \E u \in DOMAIN users, t \in 1 .. MaxTx :
            DeleteTransaction(u, t) /\ UNCHANGED log

Spec == LedgerInit /\ [][Next]_vars

----------------------------------------------------------------------------
(* The ledger's balance invariant *)

SignedAmount(doc) == IF doc.type = "income" THEN doc.amount ELSE -doc.amount

RECURSIVE SumEffects(_, _)
(* The signed sum of the transactions of the set S that are posted against a *)
SumEffects(S, a) ==
    IF S = {} THEN 0
    ELSE LET t == CHOOSE x \in S : TRUE
         IN (IF transactions[t].account_id = a THEN SignedAmount(transactions[t]) ELSE 0)
            + SumEffects(S \ {t}, a)

ExpectedBalance(a) ==
    accounts[a].initial_balance + SumEffects(DOMAIN transactions, a)

(* C1: in every state between two calls, each account's balance is its
   initial_balance plus the amounts of the existing income transactions posted
   against it minus the amounts of the existing expense transactions. *)
C1_BalanceInvariant ==
    \A a \in DOMAIN accounts : accounts[a].balance = ExpectedBalance(a)

(* C2: a successful create_transaction changes the balance of its account by
   +amount for an income and by -amount for an expense, and the balance of no
   other account. *)
C2_CreateAppliesSignedAmount ==
    [][\A d \in TxInputs :
          (CreateTransaction(Owner, d) /\ last'.status = "201") =>
              \A a \in DOMAIN accounts :
                  accounts'[a].balance =
                      accounts[a].balance
                      + (IF a = d.account_id THEN SignedAmount(d) ELSE 0)]_vars

(* C4: a successful update_transaction with a non-empty patch takes the signed
   amount of the original document off the original account and puts the
   signed amount of the updated document on the updated account; when the
   account changes, the old account is left with the balance it would have
   without the transaction. *)
C4_UpdateMovesEffect ==
    [][\A t \in 1 .. MaxTx, p \in Patches :
          (UpdateTransaction(Owner, t, p) /\ last'.status = "200" /\ p.set # {}) =>
              LET old == transactions[t]
                  new == transactions'[t]
              IN /\ \A a \in DOMAIN accounts :
                        accounts'[a].balance =
                            accounts[a].balance
                            - (IF a = old.account_id THEN SignedAmount(old) ELSE 0)
                            + (IF a = new.account_id THEN SignedAmount(new) ELSE 0)
                 /\ \A a \in DOMAIN accounts :
                        (a = old.account_id /\ a # new.account_id) =>
                            accounts'[a].balance = ExpectedBalance(a)']_vars

----------------------------------------------------------------------------
(* The ledger of one account created with initial_balance 100, with the
   calls made on it written to the log *)

ScenarioAccount ==
    [name |-> "cash", user_id |-> Owner, group_id |-> None,
     initial_balance |-> 100, balance |-> 100, is_archived |-> FALSE]

ScenarioInit ==
    /\ users = SeedUsers
    /\ sessions = Empty
    /\ groups = SeedGroups
    /\ categories = SeedCategories
    /\ accounts = [a \in {1} |-> ScenarioAccount]
    /\ transactions = Empty
    /\ nextId = [account |-> 2, tx |-> 1, category |-> 3, group |-> 2,
                 user |-> 3, session |-> 1, token |-> 1]
    /\ now = 0
    /\ proc = [p \in Procs |-> IdleProc]
    /\ hist = [used |-> {}, rotated |-> {}, loggedOut |-> {}, verifiedBy |-> {}, subs |-> {1, 2}]
    /\ last = NoResponse
    /\ log = <<>>

(* A logged call: the handler, the transaction, the fields sent *)
Call(op, t, set, type, amount) ==
    [op |-> op, tx |-> t, set |-> set, type |-> type, amount |-> amount]

ScenarioTxInputs == {d \in TxInputs : d.account_id = 1 /\ d.category_id = 1 /\ d.payer_id = None}

ScenarioPatches ==
    {p \in Patches : p.set \in {{}, {"amount"}, {"type"}}}

ScenarioNext ==
    \/ \E d \in ScenarioTxInputs :
            /\ Len(log) < MaxLog
            /\ CreateTransaction(Owner, d)
            /\ log' = Append(log, Call("create_transaction", nextId.tx,
                                       {"type", "amount"}, d.type, d.amount))
    \/ \E t \in 1 .. MaxTx, p \in ScenarioPatches :
            /\ Len(log) < MaxLog
            /\ UpdateTransaction(Owner, t, p)
            /\ log' = Append(log, Call("update_transaction", t, p.set, p.type, p.amount))
    \/ \E t \in 1 .. MaxTx :
            /\ Len(log) < MaxLog
            /\ DeleteTransaction(Owner, t)
            /\ log' = Append(log, Call("delete_transaction", t, {}, "expense", 30))

SpecScenario == ScenarioInit /\ [][ScenarioNext]_vars

ScenarioCreate == Call("create_transaction", 1, {"type", "amount"}, "expense", 30)
ScenarioUpdate == Call("update_transaction", 1, {"amount"}, "expense", 50)
ScenarioDelete == Call("delete_transaction", 1, {}, "expense", 30)

(* C3: on an account created with initial_balance 100, creating an expense
   of 30 leaves the balance 70, updating its amount to 50 leaves 50, and
   deleting it leaves 100. *)
C3_Scenario ==
    /\ log = <<ScenarioCreate>> =>
          last.status = "201" /\ accounts[1].balance = 70
    /\ log = <<ScenarioCreate, ScenarioUpdate>> =>
          last.status = "200" /\ accounts[1].balance = 50
    /\ log = <<ScenarioCreate, ScenarioUpdate, ScenarioDelete>> =>
          last.status = "204" /\ accounts[1].balance = 100 /\ transactions = Empty

C3_Witness ==
    /\ log = <<ScenarioCreate, ScenarioUpdate, ScenarioDelete>>
    /\ accounts[1].balance = 100

----------------------------------------------------------------------------
(* The auth service: signup, verification, login, refresh, logout.  Two
   clients may each have a refresh request between its two steps. *)

(* The administrator's account exists and is verified before the service is
   used (no handler can verify the first administrator) *)
SeedAdmin ==
    [u \in {1} |->
        [email |-> AdminEmail,
         first_name |-> Null,
         last_name |-> Null,
         hashed_password |-> hash_password("pw123456", "salt"),
         verified |-> TRUE]]

AuthInit ==
    /\ users = SeedAdmin
    /\ sessions = Empty
    /\ groups = Empty
    /\ categories = Empty
    /\ accounts = Empty
    /\ transactions = Empty
    /\ nextId = [account |-> 1, tx |-> 1, category |-> 1, group |-> 1,
                 user |-> 2, session |-> 1, token |-> 1]
    /\ now = 0
    /\ proc = [p \in Procs |-> IdleProc]
    /\ hist = [used |-> {}, rotated |-> {}, loggedOut |-> {}, verifiedBy |-> {}, subs |-> {}]
    /\ last = NoResponse
    /\ log = <<>>

(* The refresh tokens drawn so far *)
Issued == {RawToken(n) : n \in 1 .. (nextId.token - 1)}

(* What a client can present: a token some handler returned, or a forged one *)
Presentable == Issued \cup {ForgedToken}

AuthNext ==
    \/ \E e \in Emails, salt \in Salts :
            Signup(e, "pw123456", salt, Null, Null) /\ UNCHANGED log
    \/ \E caller \in DOMAIN users, u \in 1 .. MaxUsers :
            VerifyUser(caller, u) /\ UNCHANGED log
    \/ \E e \in Emails, pw \in Passwords : Login(e, pw) /\ UNCHANGED log
    \/ \E p \in Procs, t \in Presentable : RefreshFindAndDelete(p, t) /\ UNCHANGED log
    \/ \E p \in Procs : RefreshIssue(p) /\ UNCHANGED log
    \/ \E t \in Presentable : Logout(t) /\ UNCHANGED log
    \/ Tick /\ UNCHANGED log

SpecAuth == AuthInit /\ [][AuthNext]_vars

(* The token routes alone: the two seeded users, both verified, log in, and
   two clients refresh and log out while the clock runs *)
TokensInit ==
    /\ users = SeedUsers
    /\ sessions = Empty
    /\ groups = Empty
    /\ categories = Empty
    /\ accounts = Empty
    /\ transactions = Empty
    /\ nextId = [account |-> 1, tx |-> 1, category |-> 1, group |-> 1,
                 user |-> 3, session |-> 1, token |-> 1]
    /\ now = 0
    /\ proc = [p \in Procs |-> IdleProc]
    /\ hist = [used |-> {}, rotated |-> {}, loggedOut |-> {}, verifiedBy |-> {},
               subs |-> {}]
    /\ last = NoResponse
    /\ log = <<>>

TokensNext ==
    \/ \E e \in Emails : Login(e, "pw123456") /\ UNCHANGED log
    \/ \E p \in Procs, t \in Presentable : RefreshFindAndDelete(p, t) /\ UNCHANGED log
    \/ \E p \in Procs : RefreshIssue(p) /\ UNCHANGED log
    \/ \E t \in Presentable : Logout(t) /\ UNCHANGED log
    \/ Tick /\ UNCHANGED log

SpecTokens == TokensInit /\ [][TokensNext]_vars

(* C5: once refresh_access_token has succeeded with a refresh token, every
   later refresh_access_token call presenting that token fails with 401. *)
C5_RefreshTokenSingleUse ==
    [][\A p \in Procs, t \in Presentable :
          (t \in hist.rotated /\ RefreshFindAndDelete(p, t)) =>
              /\ proc'[p].pc = "done"
              /\ proc'[p].resp.status = "401"
              /\ proc'[p].resp.tokens = <<>>]_vars

C5_Witness ==
    \E p \in Procs :
        /\ proc[p].pc = "done"
        /\ proc[p].tok \in hist.rotated
        /\ proc[p].resp.status = "401"

(* Two clients present the same refresh token at the same time.  The token
   was returned by a login of user 1 and its session has not expired; logins
   of the administrator, logouts of other tokens and the clock run alongside. *)

RaceUser == 1

RaceToken == RawToken(1)

RaceInit ==
    /\ users = SeedUsers
    /\ now = 0
    /\ sessions = With(Empty, 1, SessionDoc(RaceUser, RaceToken))
    /\ groups = Empty
    /\ categories = Empty
    /\ accounts = Empty
    /\ transactions = Empty
    /\ nextId = [account |-> 1, tx |-> 1, category |-> 3, group |-> 1,
                 user |-> 3, session |-> 2, token |-> 2]
    /\ proc = [p \in Procs |-> IdleProc]
    /\ hist = [used |-> {}, rotated |-> {}, loggedOut |-> {}, verifiedBy |-> {}, subs |-> {RaceUser}]
    /\ last = TokenResponse("login_user", create_access_token(RaceUser), RaceToken)
    /\ log = <<>>

RaceNext ==
    \/ \E p \in Procs :
            proc[p].pc = "idle" /\ RefreshFindAndDelete(p, RaceToken) /\ UNCHANGED log
    \/ \E p \in Procs : RefreshIssue(p) /\ UNCHANGED log
    \/ \E pw \in Passwords : Login(AdminEmail, pw) /\ UNCHANGED log
    \/ \E t \in Presentable \ {RaceToken} : Logout(t) /\ UNCHANGED log
    \/ now < RefreshTokenTtl /\ Tick /\ UNCHANGED log

SpecRace == RaceInit /\ [][RaceNext]_vars

(* The clients whose call found the session *)
RaceWinners ==
    {p \in Procs : \/ proc[p].pc = "issue"
                   \/ proc[p].pc = "done" /\ proc[p].resp.status = "200"}

RaceLosers == {p \in Procs : proc[p].pc = "done" /\ proc[p].resp.status = "401"}

(* The session records of the racing user *)
RaceSessions == {s \in DOMAIN sessions : sessions[s].user_id = RaceUser}

(* C6: of two concurrent refresh_access_token calls with the same valid,
   unexpired token, under every interleaving of their steps, at most one
   finds the session; when both have returned, exactly one has a new token
   pair and the other has 401, and the user is left with exactly one session
   record, that of the new token (none once that token is logged out). *)
C6_ConcurrentRefresh ==
    /\ Cardinality(RaceWinners) <= 1
    /\ (\A p \in Procs : proc[p].pc = "done") =>
          /\ Cardinality(RaceWinners) = 1
          /\ Cardinality(RaceLosers) = 1
          /\ \A p \in RaceLosers : proc[p].resp.tokens = <<>>
          /\ Cardinality(RaceSessions) <= 1
          /\ SessionsByHash(sha256(RaceToken)) = {}
          /\ \A p \in RaceWinners :
                /\ Len(proc[p].resp.tokens) = 2
                /\ proc[p].resp.tokens[1].sub = RaceUser
                /\ proc[p].resp.tokens[2] \in Issued \ {RaceToken}
                /\ proc[p].resp.tokens[2] \notin hist.loggedOut =>
                       RaceSessions = SessionsByHash(sha256(proc[p].resp.tokens[2]))
                       /\ Cardinality(RaceSessions) = 1

C6_Witness ==
    /\ \A p \in Procs : proc[p].pc = "done"
    /\ Cardinality(RaceSessions) = 1
    /\ proc["p2"].resp.status = "200"
    /\ proc["p1"].resp.status = "401"

(* C7: every refresh token issued and not yet presented to a refresh that
   found its session, nor to a logout, has exactly one session; no two
   sessions share a token hash; a session holds the digest of an issued
   token and never a raw token. *)
C7_OneSessionPerValidToken ==
    /\ \A t \in Issued \ (hist.used \cup hist.loggedOut) :
          Cardinality(SessionsByHash(sha256(t))) = 1
    /\ \A s1, s2 \in DOMAIN sessions :
          sessions[s1].refresh_token_hash = sessions[s2].refresh_token_hash => s1 = s2
    /\ \A s \in DOMAIN sessions :
          /\ \E t \in Issued : sessions[s].refresh_token_hash = [n |-> t.n, sha |-> 1]
          /\ sessions[s].refresh_token_hash \notin Issued

C7_Witness ==
    /\ hist.rotated # {}
    /\ hist.loggedOut \cap Issued # {}
    /\ Issued \ (hist.used \cup hist.loggedOut) # {}
    /\ Cardinality(DOMAIN sessions) = 1

(* C8: logout_user answers 204 and deletes the session of the token it is
   given; with no such session it leaves the store as it is; it removes no
   other session; and a refresh_access_token call that presents a token
   after its logout fails with 401. *)
C8_LogoutIdempotent ==
    [][/\ \A t \in Presentable :
             Logout(t) =>
                 /\ last'.status = "204"
                 /\ SessionsByHash(sha256(t)) = {} => sessions' = sessions
                 /\ SessionsByHash(sha256(t))' = {}
                 /\ \A s \in DOMAIN sessions :
                        sessions[s].refresh_token_hash # sha256(t) =>
                            s \in DOMAIN sessions' /\ sessions'[s] = sessions[s]
       /\ \A p \in Procs, t \in Presentable :
             (t \in hist.loggedOut /\ RefreshFindAndDelete(p, t)) =>
                 /\ proc'[p].pc = "done"
                 /\ proc'[p].resp.status = "401"]_vars

C8_Witness ==
    /\ \E p \in Procs :
          /\ proc[p].pc = "done"
          /\ proc[p].tok \in (hist.loggedOut \cap Issued) \ hist.used
          /\ proc[p].resp.status = "401"
    /\ last.op = "logout_user"
    /\ sessions # Empty

(* C9: a login with the email and password of a signed-up user answers 403,
   with no tokens and no session, while the user's verified flag is false,
   and answers 200 with an access token and a refresh token once verify_user
   has set the flag. *)
C9_LoginNeedsVerification ==
    [][\A e \in UserEmails, pw \in Passwords :
          Login(e, pw) =>
              \A u \in UsersByEmail(e) :
                  verify_password(pw, users[u].hashed_password) =>
                      IF users[u].verified
                      THEN /\ last'.status = "200"
                           /\ Len(last'.tokens) = 2
                           /\ last'.tokens[1] = [sub |-> u, email |-> e, type |-> "access"]
                           /\ last'.tokens[2] \in Issued' \ Issued
                           /\ Cardinality({s \in DOMAIN sessions' :
                                  sessions'[s].refresh_token_hash
                                      = sha256(last'.tokens[2])}) = 1
                      ELSE /\ last'.status = "403"
                           /\ last'.tokens = <<>>
                           /\ sessions' = sessions
                           /\ Issued' = Issued]_vars

C9_Witness ==
    /\ last.op = "login_user"
    /\ last.status = "200"
    /\ last.tokens[1].email # AdminEmail

(* C10: a login with an unknown email or a wrong password answers 401
   whether or not the user is verified, and a login answered 401 or 403
   leaves the session store as it was. *)
C10_LoginFailures ==
    [][\A e \in UserEmails, pw \in Passwords :
          Login(e, pw) =>
              /\ (\A u \in UsersByEmail(e) :
                     ~verify_password(pw, users[u].hashed_password)) =>
                     last'.status = "401"
              /\ last'.status \in {"401", "403"} =>
                     /\ sessions' = sessions
                     /\ last'.tokens = <<>>
                     /\ Issued' = Issued]_vars

C10_Witness ==
    /\ last.op = "login_user"
    /\ last.status = "401"
    /\ \E u \in DOMAIN users : ~users[u].verified
    /\ sessions # Empty

----------------------------------------------------------------------------
(* The user store: signups with every email, password and names, the
   administrator's verification, and logins *)

(* first_name and last_name of a SignupRequest: both omitted, or both given *)
NameInputs == {<<Null, Null>>, <<"Test", "User">>}

UsersNext ==
    \/ \E e \in UserEmails, pw \in Passwords, salt \in Salts, n \in NameInputs :
            Signup(e, pw, salt, n[1], n[2]) /\ UNCHANGED log
    \/ \E caller \in DOMAIN users, u \in 1 .. MaxUsers :
            VerifyUser(caller, u) /\ UNCHANGED log
    \/ \E e \in UserEmails, pw \in Passwords : Login(e, pw) /\ UNCHANGED log

SpecUsers == AuthInit /\ [][UsersNext]_vars

(* C11: a signup whose email is the email of an existing user answers 409
   with the detail "User with this email already exists.", whatever the
   password, and leaves the user store as it was. *)
C11_DuplicateSignup ==
    [][\A e \in UserEmails, pw \in Passwords, salt \in Salts, n \in NameInputs :
          (Signup(e, pw, salt, n[1], n[2])
           /\ \E u \in DOMAIN users : users[u].email = e) =>
              /\ last'.status = "409"
              /\ last'.body.detail = "User with this email already exists."
              /\ users' = users]_vars

C11_Witness ==
    /\ last.op = "create_user"
    /\ last.status = "409"
    /\ Cardinality(DOMAIN users) = 3

(* C12: a signup with an email no user has answers 201, adds exactly one
   user document, with verified false, the submitted email and the submitted
   first and last names (Null when omitted), changes no other user, and
   returns the new user's id and email. *)
C12_SignupCreatesUser ==
    [][\A e \in UserEmails, pw \in Passwords, salt \in Salts, n \in NameInputs :
          (Signup(e, pw, salt, n[1], n[2])
           /\ ~\E u \in DOMAIN users : users[u].email = e) =>
              /\ last'.status = "201"
              /\ Cardinality(DOMAIN users' \ DOMAIN users) = 1
              /\ \A u \in DOMAIN users : u \in DOMAIN users' /\ users'[u] = users[u]
              /\ \A u \in DOMAIN users' \ DOMAIN users :
                    /\ users'[u].verified = FALSE
                    /\ users'[u].email = e
                    /\ users'[u].first_name = n[1]
                    /\ users'[u].last_name = n[2]
                    /\ last'.body.user_id = u
                    /\ last'.body.email = e
                    /\ last'.body.first_name = n[1]
                    /\ last'.body.last_name = n[2]]_vars

C12_Witness ==
    /\ last.op = "create_user"
    /\ last.status = "201"
    /\ last.body.user_id \in DOMAIN users
    /\ last.body.first_name = "Test"
    /\ \E u \in DOMAIN users : u # 1 /\ users[u].first_name = Null

(* C13: a user document is created with verified false; the flag becomes
   true only in a verify_user step whose caller has the admin email; and it
   never goes back from true to false. *)
C13_VerifiedOnlyByAdmin ==
    [][\A u \in DOMAIN users' :
          /\ u \notin DOMAIN users => ~users'[u].verified
          /\ u \in DOMAIN users =>
                /\ users[u].verified => users'[u].verified
                /\ (~users[u].verified /\ users'[u].verified) =>
                       \E caller \in DOMAIN users :
                           /\ users[caller].email = "admin@x.com"
                           /\ VerifyUser(caller, u)
                           /\ hist'.verifiedBy = hist.verifiedBy \cup {<<caller, u>>}]_vars

C13_Witness ==
    /\ last = Forbidden("verify_user")
    /\ \E u \in DOMAIN users : users[u].email # AdminEmail /\ users[u].verified
    /\ \E u \in DOMAIN users : ~users[u].verified

----------------------------------------------------------------------------
(* Accounts that can reach balance 0: created with 0 or 30, archived and
   patched by their owner and by another user, with expenses of 30 *)

ZeroableAccountInputs ==
    [name : {"cash"}, initial_balance : {0, 30}, group_id : {None}]

(* UpdateAccountRequest: the fields sent; a field outside p.set carries a
   filler that is never read *)
AccountPatches ==
    {p \in [set : {{}, {"is_archived"}, {"name", "is_archived"}},
            name : {"cash"}, is_archived : BOOLEAN] :
        "is_archived" \in p.set \/ p.is_archived = FALSE}

AccountTxInputs ==
    [type : {"expense"}, amount : {30}, account_id : AccountIdInputs,
     category_id : {1}, group_id : {None}, payer_id : {None},
     description : Descriptions]

AccountsNext ==
    \/ \E d \in ZeroableAccountInputs : CreateAccount(Owner, d) /\ UNCHANGED log
    \/ \E u \in DOMAIN users, a \in 1 .. MaxAccounts, p \in AccountPatches :
            UpdateAccount(u, a, p) /\ UNCHANGED log
    \/ \E u \in DOMAIN users, a \in 1 .. MaxAccounts :
            ArchiveAccount(u, a) /\ UNCHANGED log
    \/ \E d \in AccountTxInputs : CreateTransaction(Owner, d) /\ UNCHANGED log

SpecAccounts == LedgerInit /\ [][AccountsNext]_vars

(* C14: archive_account called by the owner of an account answers 400 and
   leaves the account as it was when the balance is not 0, and answers 204
   and sets is_archived when the balance is 0. *)
C14_ArchiveNeedsZeroBalance ==
    [][\A u \in DOMAIN users, a \in DOMAIN accounts :
          (ArchiveAccount(u, a) /\ accounts[a].user_id = u) =>
              IF accounts[a].balance # 0
              THEN /\ last'.status = "400"
                   /\ accounts' = accounts
              ELSE /\ last'.status = "204"
                   /\ accounts'[a].is_archived = TRUE
                   /\ \A b \in DOMAIN accounts \ {a} : accounts'[b] = accounts[b]]_vars

C14_Witness ==
    /\ last = BadRequest("archive_account")
    /\ \E a \in DOMAIN accounts : accounts[a].is_archived = TRUE /\ accounts[a].balance = 0
    /\ \E a \in DOMAIN accounts : accounts[a].is_archived = FALSE /\ accounts[a].balance # 0

(* C15: no step of the service sets an account's is_archived flag to true
   while the balance of that account is not 0. *)
C15_ArchivedOnlyAtZero ==
    [][\A a \in DOMAIN accounts :
          (accounts[a].is_archived = FALSE /\ accounts'[a].is_archived = TRUE) =>
              accounts[a].balance = 0 /\ accounts'[a].balance = 0]_vars

(* C16: create_transaction naming an account that does not exist or is
   archived answers 404, stores no transaction and changes no balance. *)
C16_CreateNeedsActiveAccount ==
    [][\A d \in AccountTxInputs :
          (CreateTransaction(Owner, d)
           /\ (d.account_id \notin DOMAIN accounts
               \/ accounts[d.account_id].is_archived = TRUE)) =>
              /\ last'.status = "404"
              /\ transactions' = transactions
              /\ accounts' = accounts]_vars

C16_Witness ==
    /\ last = NotFound("create_transaction")
    /\ \E a \in DOMAIN accounts : accounts[a].is_archived = TRUE
    /\ nextId.account > MaxAccounts
    /\ transactions # Empty

----------------------------------------------------------------------------
(* Categories: users create and delete their own, and the owner of the
   ledger posts and deletes expenses that embed them *)

CategoryInputs == [name : {"pets"}, type : {"expense"}, icon : {"paw"}]

CategoryTxInputs ==
    [type : {"expense"}, amount : {30}, account_id : {1},
     category_id : 1 .. MaxCategories, group_id : {None}, payer_id : {None},
     description : Descriptions]

CategoriesNext ==
    \/ \E d \in AccountInputs : CreateAccount(Owner, d) /\ UNCHANGED log
    \/ \E u \in DOMAIN users, d \in CategoryInputs :
            CreateCategory(u, d) /\ UNCHANGED log
    \/ \E u \in DOMAIN users, c \in 1 .. MaxCategories :
            DeleteCategory(u, c) /\ UNCHANGED log
    \/ \E d \in CategoryTxInputs : CreateTransaction(Owner, d) /\ UNCHANGED log
    \/ \E t \in 1 .. MaxTx : DeleteTransaction(Owner, t) /\ UNCHANGED log

SpecCategories == LedgerInit /\ [][CategoriesNext]_vars

(* C17: delete_category on a category the caller owns answers 400 and keeps
   the category when a transaction of the caller embeds its id, and answers
   204 and removes the category, and no other, when none does. *)
C17_DeleteCategoryInUse ==
    [][\A u \in DOMAIN users, c \in DOMAIN categories :
          (DeleteCategory(u, c) /\ categories[c].user_id = u) =>
              IF \E t \in DOMAIN transactions :
                     transactions[t].user_id = u /\ transactions[t].category.id = c
              THEN /\ last'.status = "400"
                   /\ categories' = categories
              ELSE /\ last'.status = "204"
                   /\ DOMAIN categories' = DOMAIN categories \ {c}
                   /\ \A x \in DOMAIN categories' : categories'[x] = categories[x]]_vars

C17_Witness ==
    /\ last = BadRequest("delete_category")
    /\ \E t \in DOMAIN transactions :
          /\ transactions[t].category.id \in DOMAIN categories
          /\ categories[transactions[t].category.id].user_id = Owner
    /\ \E c \in 3 .. (nextId.category - 1) : c \notin DOMAIN categories

----------------------------------------------------------------------------
(* Groups: create_group, add_member_to_group and remove_member_from_group
   (auth_logic.py). db.groups keeps members as an array that only $addToSet
   and $pull change, modelled as a set of user ids. *)

(* create_group: the caller becomes owner_id and the only member; the
   response is built from the members' user documents *)
CreateGroup(u, name) ==
    /\ nextId.group <= MaxGroups
    /\ groups' = With(groups, nextId.group,
                      [name |-> name, owner_id |-> u, members |-> {u}])
    /\ nextId' = [nextId EXCEPT !.group = @ + 1]
    /\ last' = Created("create_group")
    /\ UNCHANGED <<authVars, categories, accounts, transactions>>

(* get_group_details on the groups gs: 404 for a missing group; otherwise
   line 230 subscripts every element of members with "_id", and the elements
   are ObjectIds, so it raises TypeError (a 500) as soon as the array has an
   element; on an empty array the caller is not in the list (403) *)
get_group_details(op, gs, g, u) ==
    IF g \notin DOMAIN gs THEN NotFound(op)
    ELSE IF gs[g].members # {} THEN InternalError(op)
    ELSE Forbidden(op)

(* A faulty variant of the owner check: every caller passes *)
IsGroupOwner_anyone(g, u) == TRUE

(* group["owner_id"] != ObjectId(current_user.id) raises 403 *)
IsGroupOwner(g, u) == groups[g].owner_id = u

(* add_member_to_group: the update is written before get_group_details
   builds the response *)
AddMemberToGroup(u, g, email) ==
    /\ IF g \notin DOMAIN groups
       THEN /\ last' = NotFound("add_member_to_group")
            /\ UNCHANGED groups
       ELSE IF ~IsGroupOwner(g, u)
       THEN /\ last' = Forbidden("add_member_to_group")
            /\ UNCHANGED groups
       ELSE IF UsersByEmail(email) = {}
       THEN /\ last' = NotFound("add_member_to_group")
            /\ UNCHANGED groups
       ELSE LET user_to_add == CHOOSE x \in UsersByEmail(email) : TRUE
            IN IF user_to_add \in groups[g].members
               THEN /\ last' = Conflict("add_member_to_group")
                    /\ UNCHANGED groups
               ELSE /\ groups' = [groups EXCEPT ![g].members = @ \cup {user_to_add}]
                    /\ last' = get_group_details("add_member_to_group", groups', g, u)
    /\ UNCHANGED <<authVars, categories, accounts, transactions, nextId>>

(* A faulty variant of the owner-removal check: it is left out *)
IsOwnerRemoval_never(g, member_id) == FALSE

(* member_id_to_remove == group["owner_id"] raises 400 *)
IsOwnerRemoval(g, member_id) == member_id = groups[g].owner_id

(* remove_member_from_group: $pull, then get_group_details *)
RemoveMemberFromGroup(u, g, member_id) ==
    /\ IF g \notin DOMAIN groups
       THEN /\ last' = NotFound("remove_member_from_group")
            /\ UNCHANGED groups
       ELSE IF ~IsGroupOwner(g, u)
       THEN /\ last' = Forbidden("remove_member_from_group")
            /\ UNCHANGED groups
       ELSE IF IsOwnerRemoval(g, member_id)
       THEN /\ last' = BadRequest("remove_member_from_group")
            /\ UNCHANGED groups
       ELSE /\ groups' = [groups EXCEPT ![g].members = @ \ {member_id}]
            /\ last' = get_group_details("remove_member_from_group", groups', g, u)
    /\ UNCHANGED <<authVars, categories, accounts, transactions, nextId>>

(* Three registered users call the group routes *)
GroupUsers ==
    [u \in 1 .. 3 |->
        [SeedUsers[1] EXCEPT !.email =
            IF u = 1 THEN "a@x.com" ELSE IF u = 2 THEN AdminEmail ELSE "b@x.com"]]

GroupNames == {"home"}

(* AddMemberRequest.email: the three users' and one nobody registered *)
MemberEmails == UserEmails \cup {"c@x.com"}

GroupsInit ==
    /\ users = GroupUsers
    /\ sessions = Empty
    /\ groups = Empty
    /\ categories = SeedCategories
    /\ accounts = Empty
    /\ transactions = Empty
    /\ nextId = [account |-> 1, tx |-> 1, category |-> 3, group |-> 1,
                 user |-> 4, session |-> 1, token |-> 1]
    /\ now = 0
    /\ proc = [p \in Procs |-> IdleProc]
    /\ hist = [used |-> {}, rotated |-> {}, loggedOut |-> {}, verifiedBy |-> {},
               subs |-> {1, 2, 3}]
    /\ last = NoResponse
    /\ log = <<>>

GroupsNext ==
    \/ \E u \in DOMAIN users, n \in GroupNames : CreateGroup(u, n) /\ UNCHANGED log
    \/ \E u \in DOMAIN users, g \in 1 .. MaxGroups, e \in MemberEmails :
            AddMemberToGroup(u, g, e) /\ UNCHANGED log
    \/ \E u \in DOMAIN users, g \in 1 .. MaxGroups, m \in 1 .. MaxUsers :
            RemoveMemberFromGroup(u, g, m) /\ UNCHANGED log

SpecGroups == GroupsInit /\ [][GroupsNext]_vars

(* C18 as stated: remove_member_from_group whose member id is the group's
   owner_id answers 400 and leaves the members unchanged, whoever calls. *)
C18_OwnerRemovalAlways400 ==
    [][\A u \in DOMAIN users, g \in DOMAIN groups :
          RemoveMemberFromGroup(u, g, groups[g].owner_id) =>
              /\ last'.status = "400"
              /\ groups' = groups]_vars

(* C18, amended: remove_member_from_group whose member id is the group's
   owner_id never succeeds and leaves the members unchanged; it answers 400
   when the owner calls it and 403 when any other user does. *)
C18_OwnerNeverRemoved ==
    [][\A u \in DOMAIN users, g \in DOMAIN groups :
          RemoveMemberFromGroup(u, g, groups[g].owner_id) =>
              /\ last'.status = IF u = groups[g].owner_id THEN "400" ELSE "403"
              /\ groups' = groups]_vars

C18_Witness ==
    /\ last = BadRequest("remove_member_from_group")
    /\ \E g \in DOMAIN groups : Cardinality(groups[g].members) >= 2

(* C19: in the initial state and after every step of create_group,
   add_member_to_group and remove_member_from_group, every group's owner_id
   is one of its members, and no step removes a group or changes its
   owner_id. *)
C19_OwnerIsMember ==
    /\ \A g \in DOMAIN groups : groups[g].owner_id \in groups[g].members
    /\ [][/\ \A g \in DOMAIN groups' : groups'[g].owner_id \in groups'[g].members
          /\ \A g \in DOMAIN groups :
                /\ g \in DOMAIN groups'
                /\ groups'[g].owner_id = groups[g].owner_id]_vars

C19_Witness ==
    /\ last = InternalError("remove_member_from_group")
    /\ nextId.group > MaxGroups
    /\ \E g \in DOMAIN groups : Cardinality(groups[g].members) = 1
    /\ \E g \in DOMAIN groups : Cardinality(groups[g].members) >= 2

(* C20: add_member_to_group and remove_member_from_group called on a group
   by a user who is not its owner answer 403 and leave the members
   unchanged, and every step that changes a group's members is one of these
   two calls made by the group's owner. *)
C20_MembersOnlyByOwner ==
    [][/\ \A u \in DOMAIN users, g \in DOMAIN groups :
             (/\ u # groups[g].owner_id
              /\ \/ \E e \in MemberEmails : AddMemberToGroup(u, g, e)
                 \/ \E m \in 1 .. MaxUsers : RemoveMemberFromGroup(u, g, m)) =>
                 /\ last'.status = "403"
                 /\ groups' = groups
       /\ \A g \in DOMAIN groups :
             groups'[g].members # groups[g].members =>
                 \/ \E e \in MemberEmails :
                        AddMemberToGroup(groups[g].owner_id, g, e)
                 \/ \E m \in 1 .. MaxUsers :
                        RemoveMemberFromGroup(groups[g].owner_id, g, m)]_vars

C20_Witness ==
    /\ last.status = "403"
    /\ \E g \in DOMAIN groups :
          /\ Cardinality(groups[g].members) = 2
          /\ Cardinality(DOMAIN users \ groups[g].members) = 1

----------------------------------------------------------------------------
(* Category names: the two users create, rename, re-icon and delete
   categories named "pets" and "toys" *)

NamedCategoryInputs == [name : {"pets", "toys"}, type : {"expense"}, icon : {"paw"}]

(* UpdateCategoryRequest: the fields sent; a field outside p.set carries a
   filler that is never read *)
CategoryPatches ==
    {p \in [set : SUBSET {"name", "icon"}, name : {"pets", "toys"},
            icon : {"paw", "bone"}] :
        /\ "name" \in p.set \/ p.name = "pets"
        /\ "icon" \in p.set \/ p.icon = "paw"}

CategoryNamesNext ==
    \/ \E u \in DOMAIN users, d \in NamedCategoryInputs :
            CreateCategory(u, d) /\ UNCHANGED log
    \/ \E u \in DOMAIN users, c \in 1 .. MaxCategories, p \in CategoryPatches :
            UpdateCategory(u, c, p) /\ UNCHANGED log
    \/ \E u \in DOMAIN users, c \in 1 .. MaxCategories :
            DeleteCategory(u, c) /\ UNCHANGED log

SpecCategoryNames == LedgerInit /\ [][CategoryNamesNext]_vars

(* C21: in the initial state and after every step of create_category,
   update_category and delete_category, no two categories have the same
   name, type and user_id; and create_category with a name and type that a
   category of the caller already has answers 409 and stores nothing. *)
C21_UniqueCategoryTriple ==
    /\ \A c1, c2 \in DOMAIN categories :
          (/\ categories[c1].name = categories[c2].name
           /\ categories[c1].type = categories[c2].type
           /\ categories[c1].user_id = categories[c2].user_id) => c1 = c2
    /\ [][/\ \A c1, c2 \in DOMAIN categories' :
                (/\ categories'[c1].name = categories'[c2].name
                 /\ categories'[c1].type = categories'[c2].type
                 /\ categories'[c1].user_id = categories'[c2].user_id) => c1 = c2
          /\ \A u \in DOMAIN users, d \in NamedCategoryInputs :
                (/\ CreateCategory(u, d)
                 /\ \E c \in DOMAIN categories :
                       /\ categories[c].name = d.name
                       /\ categories[c].type = d.type
                       /\ categories[c].user_id = u) =>
                    /\ last'.status = "409"
                    /\ categories' = categories]_vars

----------------------------------------------------------------------------
(* Concurrent create_transaction calls of the ledger's owner on one account.
   Each call is a client of Procs with its request; the database steps of
   the calls interleave. *)

(* The requests in flight: every type and amount, the default category or
   the third user's, the account or none that exists *)
RaceTxInputs ==
    [type : TxTypes, amount : Amounts, account_id : {1, 2},
     category_id : {1, 2}, group_id : {None}, payer_id : {None},
     description : Descriptions]

TxProc(pc, req, resp) == [pc |-> pc, req |-> req, resp |-> resp]

TxRaceInit ==
    /\ users = SeedUsers
    /\ sessions = Empty
    /\ groups = SeedGroups
    /\ categories = SeedCategories
    /\ accounts = [a \in {1} |-> ScenarioAccount]
    /\ transactions = Empty
    /\ nextId = [account |-> 2, tx |-> 1, category |-> 3, group |-> 2,
                 user |-> 3, session |-> 1, token |-> 1]
    /\ now = 0
    /\ proc \in [Procs -> {TxProc("find", d, NoResponse) : d \in RaceTxInputs}]
    /\ hist = [used |-> {}, rotated |-> {}, loggedOut |-> {}, verifiedBy |-> {},
               subs |-> {1, 2}]
    /\ last = NoResponse
    /\ log = <<>>

(* Lines 132-194: the reads of create_transaction (categories, accounts,
   groups).  No step of these calls writes what they read, so they are one
   step. *)
TxFind(p) ==
    /\ proc[p].pc = "find"
    /\ LET d == proc[p].req
       IN proc' = [proc EXCEPT ![p] =
              IF ~AccessibleCategory(d.category_id, Owner)
              THEN TxProc("done", d, NotFound("create_transaction"))
              ELSE IF ~ActiveAccount(accounts, d.account_id)
              THEN TxProc("done", d, NotFound("create_transaction"))
              ELSE IF ~PayerAllowed(Owner, TransactionDoc(Owner, d).payer_id, d.group_id)
              THEN TxProc("done", d, Forbidden("create_transaction"))
              ELSE TxProc("insert", d, NoResponse)]
    /\ UNCHANGED <<authVars_but_proc, ledgerVars, nextId, last, log>>

(* Line 199: db.transactions.insert_one *)
TxInsert(p) ==
    /\ proc[p].pc = "insert"
    /\ transactions' = With(transactions, nextId.tx, TransactionDoc(Owner, proc[p].req))
    /\ nextId' = [nextId EXCEPT !.tx = @ + 1]
    /\ proc' = [proc EXCEPT ![p].pc = "inc"]
    /\ UNCHANGED <<authVars_but_proc, groups, categories, accounts, last, log>>

(* Lines 200-201: update_balance, one update_one with $inc, which the
   database applies atomically; the call then answers 201 *)
TxInc(p) ==
    /\ proc[p].pc = "inc"
    /\ LET d == proc[p].req
       IN accounts' = update_balance(accounts, d.account_id, d.amount, BalanceOperation(d))
    /\ proc' = [proc EXCEPT ![p] =
                    TxProc("done", proc[p].req, Created("create_transaction"))]
    /\ UNCHANGED <<authVars_but_proc, groups, categories, transactions, nextId, last, log>>

TxRaceNext ==
    \/ \E p \in Procs : TxFind(p)
    \/ \E p \in Procs : TxInsert(p)
    \/ \E p \in Procs : TxInc(p)

SpecTxRace == TxRaceInit /\ [][TxRaceNext]_vars

(* The calls of the race that were answered 201 *)
TxRaceCreated == {p \in Procs : proc[p].resp.status = "201"}

RECURSIVE SumRequests(_)
(* The signed sum of the requests of the clients in S: an income counts
   positive, an expense negative *)
SumRequests(S) ==
    IF S = {} THEN 0
    ELSE LET p == CHOOSE x \in S : TRUE
         IN SignedAmount(proc[p].req) + SumRequests(S \ {p})

(* C22: once every concurrent create_transaction call on the account has
   completed, whatever the interleaving of their database steps, the balance
   is the initial balance plus the signed amount of every call answered
   201. *)
C22_NoLostBalanceUpdate ==
    (\A p \in Procs : proc[p].pc = "done") =>
        accounts[1].balance = accounts[1].initial_balance + SumRequests(TxRaceCreated)

----------------------------------------------------------------------------
(* A shared ledger: users 1 and 2 are the members of group 1, user 3 is not *)

SharedInit ==
    /\ users = GroupUsers
    /\ sessions = Empty
    /\ groups = [g \in {1} |-> [name |-> "home", owner_id |-> 1, members |-> {1, 2}]]
    /\ categories = SeedCategories
    /\ accounts = Empty
    /\ transactions = Empty
    /\ nextId = [account |-> 1, tx |-> 1, category |-> 3, group |-> 2,
                 user |-> 4, session |-> 1, token |-> 1]
    /\ now = 0
    /\ proc = [p \in Procs |-> IdleProc]
    /\ hist = [used |-> {}, rotated |-> {}, loggedOut |-> {}, verifiedBy |-> {},
               subs |-> {1, 2, 3}]
    /\ last = NoResponse
    /\ log = <<>>

(* Personal accounts and accounts of group 1, with nothing on them *)
SharedAccountInputs == [name : {"cash"}, initial_balance : {0}, group_id : {None, 1}]

AccountListsNext ==
    \/ \E u \in DOMAIN users, d \in SharedAccountInputs :
            CreateAccount(u, d) /\ UNCHANGED log
    \/ \E u \in DOMAIN users, a \in 1 .. MaxAccounts :
            ArchiveAccount(u, a) /\ UNCHANGED log
    \/ \E u \in DOMAIN users : ListAccounts(u) /\ UNCHANGED log

SpecAccountLists == SharedInit /\ [][AccountListsNext]_vars

(* C23: list_accounts returns exactly the accounts that are not archived and
   are either owned by the acting user or owned by a group whose members
   include the acting user. *)
C23_ListAccounts ==
    [][\A u \in DOMAIN users :
          ListAccounts(u) =>
              last'.items =
                  {a \in DOMAIN accounts :
                      /\ accounts[a].is_archived = FALSE
                      /\ \/ accounts[a].user_id = u
                         \/ /\ accounts[a].group_id \in DOMAIN groups
                            /\ u \in groups[accounts[a].group_id].members}]_vars

(* Group 1 and its members post expenses of 30 on one account, in two
   months, personal or for a group, naming a payer or not, and list them *)
SharedTxInputs ==
    [type : {"expense"}, amount : {30}, account_id : {1}, category_id : {1},
     group_id : {None, 1}, payer_id : {None, 1, 3},
     description : Descriptions, transaction_date : {0, MonthLen}]

GroupLedgerNext ==
    \/ \E d \in AccountInputs : CreateAccount(Owner, d) /\ UNCHANGED log
    \/ \E u \in DOMAIN users, d \in SharedTxInputs :
            CreateTransaction(u, d) /\ UNCHANGED log
    \/ \E u \in DOMAIN users, m \in {0, 1}, g \in {None, 1} :
            ListTransactions(u, m, g) /\ UNCHANGED log

SpecGroupLedger == SharedInit /\ [][GroupLedgerNext]_vars

(* C24: list_transactions with a group_id answers 403 when the acting user
   is not a member of that group; for a member it returns every transaction
   of that group dated in the month, whichever member created it; without
   group_id it returns the acting user's own transactions with group_id null
   dated in the month. *)
C24_ListTransactions ==
    [][\A u \in DOMAIN users, m \in {0, 1}, g \in {None, 1} :
          ListTransactions(u, m, g) =>
              IF g # None /\ ~(g \in DOMAIN groups /\ u \in groups[g].members)
              THEN last'.status = "403"
              ELSE /\ last'.status = "200"
                   /\ last'.items =
                        {t \in DOMAIN transactions :
                            /\ transactions[t].group_id = g
                            /\ g = None => transactions[t].user_id = u
                            /\ transactions[t].transaction_date >= m * MonthLen
                            /\ transactions[t].transaction_date < (m + 1) * MonthLen}]_vars

(* C27: a create_transaction that names an accessible category and an
   active account stores the acting user as payer_id when the request names
   none; it answers 403, stores nothing and changes no balance unless the
   payer is a member of the group named, or, when no group is named, unless
   the payer is the acting user. *)
C27_PayerRule ==
    [][\A u \in DOMAIN users, d \in SharedTxInputs :
          (/\ d.account_id \in DOMAIN accounts
           /\ accounts[d.account_id].is_archived = FALSE
           /\ d.category_id \in DOMAIN categories
           /\ categories[d.category_id].user_id \in {u, None}
           /\ last'.op = "create_transaction"
           /\ CreateTransaction(u, d)) =>
              LET payer == IF d.payer_id = None THEN u ELSE d.payer_id
                  allowed == IF d.group_id # None
                             THEN /\ d.group_id \in DOMAIN groups
                                  /\ payer \in groups[d.group_id].members
                             ELSE payer = u
              IN IF allowed
                 THEN /\ last'.status = "201"
                      /\ DOMAIN transactions' = DOMAIN transactions \cup {nextId.tx}
                      /\ transactions'[nextId.tx].payer_id = payer
                      /\ transactions'[nextId.tx].user_id = u
                 ELSE /\ last'.status = "403"
                      /\ transactions' = transactions
                      /\ accounts' = accounts]_vars

C27_Witness ==
    /\ last = Forbidden("create_transaction")
    /\ \E t \in DOMAIN transactions :
          /\ transactions[t].group_id = 1
          /\ transactions[t].payer_id # transactions[t].user_id

----------------------------------------------------------------------------
(* Category snapshots: both users create, rename and re-icon categories
   while the owner of the ledger posts expenses on the account and moves
   them between categories *)

SnapshotTxInputs ==
    [type : {"expense"}, amount : {30}, account_id : {1},
     category_id : 1 .. (MaxCategories + 1), group_id : {None}, payer_id : {None},
     description : Descriptions]

(* UpdateTransactionRequest with category_id alone, or description alone *)
SnapshotPatches ==
    [set : {{"category_id"}}, category_id : 1 .. (MaxCategories + 1)]
        \cup [set : {{"description"}}, description : Descriptions]

SnapshotsNext ==
    \/ \E u \in DOMAIN users, d \in CategoryInputs :
            CreateCategory(u, d) /\ UNCHANGED log
    \/ \E u \in DOMAIN users, c \in 1 .. MaxCategories,
          p \in {q \in CategoryPatches : q.set # {} /\ q.name = "toys" /\ q.icon = "bone"} :
            UpdateCategory(u, c, p) /\ UNCHANGED log
    \/ \E d \in SnapshotTxInputs : CreateTransaction(Owner, d) /\ UNCHANGED log
    \/ \E t \in 1 .. MaxTx, p \in SnapshotPatches :
            UpdateTransaction(Owner, t, p) /\ UNCHANGED log

SpecSnapshots == ScenarioInit /\ [][SnapshotsNext]_vars

(* C25: create_transaction, and update_transaction of a transaction of the
   acting user with a category_id, answer 404, store or change no
   transaction and change no balance when the category id names no category
   or a category owned by another user; a call that is accepted names a
   category owned by the acting user or by nobody. *)
C25_CategoryMustBeAccessible ==
    [][/\ \A d \in SnapshotTxInputs :
             (/\ ~(/\ d.category_id \in DOMAIN categories
                   /\ categories[d.category_id].user_id \in {Owner, None})
              /\ CreateTransaction(Owner, d)) =>
                 /\ last'.status = "404"
                 /\ transactions' = transactions
                 /\ accounts' = accounts
       /\ \A t \in DOMAIN transactions, p \in SnapshotPatches :
             (/\ "category_id" \in p.set
              /\ ~(/\ p.category_id \in DOMAIN categories
                   /\ categories[p.category_id].user_id \in {Owner, None})
              /\ UpdateTransaction(Owner, t, p)) =>
                 /\ last'.status = "404"
                 /\ transactions' = transactions
                 /\ accounts' = accounts]_vars

C25_Witness ==
    /\ last = NotFound("update_transaction")
    /\ nextId.tx > MaxTx
    /\ \E c \in DOMAIN categories : categories[c].user_id = 2
    /\ \E c \in DOMAIN categories : categories[c].user_id = Owner

(* C26: the category embedded in a transaction by create_transaction, and by
   an update_transaction that names a category, is the id, name and icon
   that category has at that step; an update_transaction that names no
   category keeps the embedded category; and a step that changes a category
   (update_category) changes no transaction. *)
C26_CategorySnapshot ==
    [][/\ \A d \in SnapshotTxInputs :
             (last'.status = "201" /\ CreateTransaction(Owner, d)) =>
                 transactions'[nextId.tx].category =
                     [id |-> d.category_id,
                      name |-> categories[d.category_id].name,
                      icon |-> categories[d.category_id].icon]
       /\ \A t \in DOMAIN transactions, p \in SnapshotPatches :
             (last'.status = "200" /\ UpdateTransaction(Owner, t, p)) =>
                 transactions'[t].category =
                     IF "category_id" \in p.set
                     THEN [id |-> p.category_id,
                           name |-> categories[p.category_id].name,
                           icon |-> categories[p.category_id].icon]
                     ELSE transactions[t].category
       /\ categories' # categories => transactions' = transactions]_vars

C26_Witness ==
    /\ last.op = "update_transaction"
    /\ last.status = "200"
    /\ \E t \in DOMAIN transactions :
          /\ transactions[t].category.id \in DOMAIN categories
          /\ transactions[t].category.name
                # categories[transactions[t].category.id].name
    /\ \E t \in DOMAIN transactions :
          /\ transactions[t].category.id \in DOMAIN categories
          /\ transactions[t].category.icon = "bone"

----------------------------------------------------------------------------
(* Edits: the owner of the ledger posts expenses of 30 on the account; both
   users patch and delete transactions, with no field or with the amount,
   while the clock runs *)

EditTxInputs ==
    [type : {"expense"}, amount : {30}, account_id : {1}, category_id : {1},
     group_id : {None}, payer_id : {None}, description : Descriptions]

EditPatches == [set : {{}}] \cup [set : {{"amount"}}, amount : {50}]

EditsNext ==
    \/ \E d \in EditTxInputs : CreateTransaction(Owner, d) /\ UNCHANGED log
    \/ \E u \in DOMAIN users, t \in 1 .. MaxTx, p \in EditPatches :
            UpdateTransaction(u, t, p) /\ UNCHANGED log
    \/ \E u \in DOMAIN users, t \in 1 .. MaxTx :
            DeleteTransaction(u, t) /\ UNCHANGED log
    \/ Tick /\ UNCHANGED log

SpecEdits == ScenarioInit /\ [][EditsNext]_vars

(* C28: update_transaction of a transaction of the acting user with a patch
   that sets no field answers 200 and changes nothing: every stored
   transaction, updated_at included, and every account stay as they were. *)
C28_EmptyPatchChangesNothing ==
    [][\A u \in DOMAIN users, t \in DOMAIN transactions :
          (/\ transactions[t].user_id = u
           /\ UpdateTransaction(u, t, [set |-> {}])) =>
              /\ last'.status = "200"
              /\ transactions' = transactions
              /\ accounts' = accounts]_vars

C28_Witness ==
    /\ last = Ok("update_transaction")
    /\ transactions # Empty
    /\ \A t \in DOMAIN transactions :
          /\ transactions[t].amount = 30
          /\ transactions[t].updated_at < now

(* C29: update_transaction and delete_transaction of a transaction that
   does not exist, or whose user_id is not the acting user, answer 404 and
   leave every transaction and every account as they were. *)
C29_ForeignTransactionNotFound ==
    [][\A u \in DOMAIN users, t \in 1 .. MaxTx :
          (/\ t \notin DOMAIN transactions \/ transactions[t].user_id # u
           /\ \/ \E p \in EditPatches : UpdateTransaction(u, t, p)
              \/ DeleteTransaction(u, t)) =>
              /\ last'.status = "404"
              /\ transactions' = transactions
              /\ accounts' = accounts]_vars

C29_Witness ==
    /\ last = NotFound("delete_transaction")
    /\ DOMAIN transactions = 1 .. MaxTx

----------------------------------------------------------------------------
(* C30: refresh_access_token with a token whose session exists but expired
   before now answers 401 without tokens and issues no session; that attempt
   removes the session, and a token that was taken from the store without
   being rotated is answered 401 by every later attempt. *)
C30_ExpiredRefreshRejected ==
    [][\A p \in Procs, t \in Presentable :
          /\ (/\ \E s \in DOMAIN sessions :
                    /\ sessions[s].refresh_token_hash = sha256(t)
                    /\ sessions[s].expires_at < now
              /\ RefreshFindAndDelete(p, t)) =>
                 /\ proc'[p].pc = "done"
                 /\ proc'[p].resp.status = "401"
                 /\ proc'[p].resp.tokens = <<>>
                 /\ DOMAIN sessions' \subseteq DOMAIN sessions
                 /\ \A s \in DOMAIN sessions' :
                        sessions'[s].refresh_token_hash # sha256(t)
                 /\ nextId' = nextId
          /\ (/\ t \in hist.used \ hist.rotated
              /\ RefreshFindAndDelete(p, t)) =>
                 /\ proc'[p].pc = "done"
                 /\ proc'[p].resp.status = "401"
                 /\ sessions' = sessions]_vars

C30_Witness ==
    /\ \A q \in Procs : proc[q].pc = "done"
    /\ \E p \in Procs :
        /\ proc[p].resp.status = "401"
        /\ proc[p].tok \in hist.used \ (hist.rotated \cup hist.loggedOut)
        /\ \A s \in DOMAIN sessions :
              sessions[s].refresh_token_hash # sha256(proc[p].tok)

----------------------------------------------------------------------------
(* Balances: the owner of the ledger opens, patches and archives accounts,
   and posts, patches and deletes expenses *)

BalancePatches == [set : {{"amount"}}, amount : {50}]

BalancesNext ==
    \/ \E d \in ZeroableAccountInputs : CreateAccount(Owner, d) /\ UNCHANGED log
    \/ \E a \in 1 .. MaxAccounts, p \in AccountPatches :
            UpdateAccount(Owner, a, p) /\ UNCHANGED log
    \/ \E a \in 1 .. MaxAccounts : ArchiveAccount(Owner, a) /\ UNCHANGED log
    \/ \E d \in AccountTxInputs : CreateTransaction(Owner, d) /\ UNCHANGED log
    \/ \E t \in 1 .. MaxTx, p \in BalancePatches :
            UpdateTransaction(Owner, t, p) /\ UNCHANGED log
    \/ \E t \in 1 .. MaxTx : DeleteTransaction(Owner, t) /\ UNCHANGED log

SpecBalances == LedgerInit /\ [][BalancesNext]_vars

(* C31: a new account has balance = initial_balance; afterwards no step
   changes initial_balance, only create_transaction, update_transaction and
   delete_transaction change balance, and update_account and archive_account
   leave balance and initial_balance of every account as they were. *)
C31_BalanceFrame ==
    [][/\ \A a \in DOMAIN accounts' \ DOMAIN accounts :
             accounts'[a].balance = accounts'[a].initial_balance
       /\ \A a \in DOMAIN accounts :
             /\ a \in DOMAIN accounts'
             /\ accounts'[a].initial_balance = accounts[a].initial_balance
             /\ accounts'[a].balance # accounts[a].balance =>
                   last'.op \in {"create_transaction", "update_transaction",
                                 "delete_transaction"}
       /\ last'.op \in {"update_account", "archive_account"} =>
             \A a \in DOMAIN accounts :
                 accounts'[a].balance = accounts[a].balance]_vars

C31_Witness ==
    /\ last = Ok("update_account")
    /\ accounts # Empty
    /\ \A a \in DOMAIN accounts :
          /\ accounts[a].balance # accounts[a].initial_balance
          /\ accounts[a].is_archived = TRUE

----------------------------------------------------------------------------
(* C32: update_category and delete_category on a category that the caller
   does not own, a default category (user_id null) or one that does not
   exist included, answer 404 and leave every category as it was. *)
C32_ForeignCategoryNotFound ==
    [][\A u \in DOMAIN users, c \in 1 .. MaxCategories :
          (/\ c \notin DOMAIN categories \/ categories[c].user_id # u
           /\ \/ \E p \in CategoryPatches : UpdateCategory(u, c, p)
              \/ DeleteCategory(u, c)) =>
              /\ last'.status = "404"
              /\ categories' = categories]_vars

C32_Witness ==
    /\ last = NotFound("update_category")
    /\ DOMAIN categories = 1 .. MaxCategories
    /\ categories[1].user_id = None

----------------------------------------------------------------------------
(* Concurrent signups.  Each client of Procs has a SignupRequest in flight;
   create_user awaits find_one and then insert_one, and the steps of the
   calls interleave.  The users collection has no unique index. *)

SignupRequests == [email : UserEmails, password : Passwords]

SignupRaceInit ==
    /\ users = Empty
    /\ sessions = Empty
    /\ groups = Empty
    /\ categories = Empty
    /\ accounts = Empty
    /\ transactions = Empty
    /\ nextId = [account |-> 1, tx |-> 1, category |-> 1, group |-> 1,
                 user |-> 1, session |-> 1, token |-> 1]
    /\ now = 0
    /\ proc \in [Procs -> {TxProc("find", d, NoResponse) : d \in SignupRequests}]
    /\ hist = [used |-> {}, rotated |-> {}, loggedOut |-> {}, verifiedBy |-> {},
               subs |-> {}]
    /\ last = NoResponse
    /\ log = <<>>

(* create_user, lines 72-73: db.users.find_one({"email": email}) *)
SignupFind(p) ==
    /\ proc[p].pc = "find"
    /\ proc' = [proc EXCEPT ![p] =
           IF UsersByEmail(proc[p].req.email) # {}
           THEN TxProc("done", proc[p].req, Conflict("create_user"))
           ELSE TxProc("insert", proc[p].req, NoResponse)]
    /\ UNCHANGED <<authVars_but_proc, ledgerVars, nextId, last, log>>

(* create_user, lines 75-89: db.users.insert_one(new_user_doc) *)
SignupInsert(p) ==
    /\ proc[p].pc = "insert"
    /\ nextId.user <= MaxUsers
    /\ users' = With(users, nextId.user,
                     [email |-> proc[p].req.email,
                      first_name |-> Null,
                      last_name |-> Null,
                      hashed_password |-> hash_password(proc[p].req.password, "salt"),
                      verified |-> FALSE])
    /\ nextId' = [nextId EXCEPT !.user = @ + 1]
    /\ proc' = [proc EXCEPT ![p] = TxProc("done", proc[p].req, Created("create_user"))]
    /\ UNCHANGED <<sessions, now, hist, ledgerVars, last, log>>

SignupRaceNext ==
    \/ \E p \in Procs : SignupFind(p)
    \/ \E p \in Procs : SignupInsert(p)

SpecSignupRace == SignupRaceInit /\ [][SignupRaceNext]_vars

(* C33: no two user records have the same email, in every state of every
   interleaving of the find and insert steps of concurrent signups; of two
   signups with one email at most one is answered 201. *)
C33_UniqueEmails ==
    /\ \A u1, u2 \in DOMAIN users : users[u1].email = users[u2].email => u1 = u2
    /\ \A p, q \in Procs :
          (/\ p # q
           /\ proc[p].req.email = proc[q].req.email
           /\ proc[p].resp.status = "201") => proc[q].resp.status # "201"

----------------------------------------------------------------------------
(* Concurrent update_transaction and delete_transaction calls of the owner
   on one transaction, an expense of 30 on the account opened with 100.
   Each client of Procs has one call in flight; the database steps of the
   calls interleave. *)

RacedTx == 1

RacedRequest ==
    [type |-> "expense", amount |-> 30, account_id |-> 1, category_id |-> 1,
     group_id |-> None, payer_id |-> None, description |-> "lunch"]

EditRaceRequests ==
    {[op |-> "delete", patch |-> [set |-> {}, amount |-> 30]]}
        \cup {[op |-> "update", patch |-> p] : p \in [set : {{"amount"}}, amount : {20, 50}]}

EditProc(pc, req, original, updated, resp) ==
    [pc |-> pc, req |-> req, original |-> original, updated |-> updated, resp |-> resp]

EditRaceInit ==
    /\ users = SeedUsers
    /\ sessions = Empty
    /\ groups = SeedGroups
    /\ categories = SeedCategories
    /\ now = 0
    /\ accounts = [a \in {1} |-> [ScenarioAccount EXCEPT !.balance = 70]]
    /\ transactions = [t \in {RacedTx} |-> TransactionDoc(Owner, RacedRequest)]
    /\ nextId = [account |-> 2, tx |-> 2, category |-> 3, group |-> 2,
                 user |-> 3, session |-> 1, token |-> 1]
    /\ proc \in [Procs -> {EditProc("find", r, None, None, NoResponse) :
                              r \in EditRaceRequests}]
    /\ hist = [used |-> {}, rotated |-> {}, loggedOut |-> {}, verifiedBy |-> {},
               subs |-> {1, 2}]
    /\ last = NoResponse
    /\ log = <<>>

(* update_transaction, lines 258-262, and delete_transaction, lines 381-389:
   find_one({_id, user_id}); the document read is kept by the call *)
EditFind(p) ==
    /\ proc[p].pc = "find"
    /\ proc' = [proc EXCEPT ![p] =
           IF ~OwnTransaction(RacedTx, Owner)
           THEN EditProc("done", proc[p].req, None, None,
                         NotFound(proc[p].req.op))
           ELSE EditProc(IF proc[p].req.op = "delete" THEN "reverse" ELSE "set",
                         proc[p].req, transactions[RacedTx], None, NoResponse)]
    /\ UNCHANGED <<authVars_but_proc, ledgerVars, nextId, last, log>>

(* update_transaction, lines 288-297: find_one_and_update({_id}, $set);
   404 when the document is gone *)
EditSet(p) ==
    /\ proc[p].pc = "set"
    /\ IF RacedTx \notin DOMAIN transactions
       THEN /\ proc' = [proc EXCEPT ![p].pc = "done", ![p].resp = NotFound("update")]
            /\ UNCHANGED transactions
       ELSE LET updated_transaction == ApplyPatch(transactions[RacedTx], proc[p].req.patch)
            IN /\ transactions' = [transactions EXCEPT ![RacedTx] = updated_transaction]
               /\ proc' = [proc EXCEPT ![p].pc = "reverse",
                                        ![p].updated = updated_transaction]
    /\ UNCHANGED <<authVars_but_proc, groups, categories, accounts, nextId, last, log>>

(* update_transaction, lines 300-306, and delete_transaction, lines 391-400:
   the effect of the document read at the start is undone *)
EditReverse(p) ==
    /\ proc[p].pc = "reverse"
    /\ accounts' = ReverseEffect(accounts, proc[p].original)
    /\ proc' = [proc EXCEPT ![p].pc = IF proc[p].req.op = "delete"
                                      THEN "delete" ELSE "apply"]
    /\ UNCHANGED <<authVars_but_proc, groups, categories, transactions, nextId, last, log>>

(* update_transaction, lines 308-318: the effect of the document that
   find_one_and_update returned is applied *)
EditApply(p) ==
    /\ proc[p].pc = "apply"
    /\ accounts' = ApplyEffect(accounts, proc[p].updated)
    /\ proc' = [proc EXCEPT ![p].pc = "done", ![p].resp = Ok("update")]
    /\ UNCHANGED <<authVars_but_proc, groups, categories, transactions, nextId, last, log>>

(* delete_transaction, lines 403-404: delete_one({_id}) *)
EditDelete(p) ==
    /\ proc[p].pc = "delete"
    /\ transactions' = Without(transactions, RacedTx)
    /\ proc' = [proc EXCEPT ![p].pc = "done", ![p].resp = NoContent("delete")]
    /\ UNCHANGED <<authVars_but_proc, groups, categories, accounts, nextId, last, log>>

EditRaceNext ==
    \/ \E p \in Procs : EditFind(p)
    \/ \E p \in Procs : EditSet(p)
    \/ \E p \in Procs : EditReverse(p)
    \/ \E p \in Procs : EditApply(p)
    \/ \E p \in Procs : EditDelete(p)

SpecEditRace == EditRaceInit /\ [][EditRaceNext]_vars

(* C34: once the concurrent update_transaction and delete_transaction calls
   on the transaction have all completed, whatever the interleaving of their
   steps, the balance of the account is initial_balance minus the amount of
   the expense if it still exists, and initial_balance if it does not. *)
C34_ReversedExactlyOnce ==
    (\A p \in Procs : proc[p].pc = "done") =>
        accounts[1].balance =
            accounts[1].initial_balance
                - (IF RacedTx \in DOMAIN transactions
                   THEN transactions[RacedTx].amount ELSE 0)

----------------------------------------------------------------------------
(* C35: update_transaction with a patch whose account_id names an account
   that does not exist or is archived is rejected and leaves every
   transaction and every account as they were; and no update_transaction
   changes the balance of an archived account. *)
C35_UpdateNeedsActiveAccount ==
    [][/\ \A t \in DOMAIN transactions, p \in Patches :
             (/\ "account_id" \in p.set
              /\ transactions[t].user_id = Owner
              /\ \/ p.account_id \notin DOMAIN accounts
                 \/ accounts[p.account_id].is_archived = TRUE
              /\ UpdateTransaction(Owner, t, p)) =>
                 /\ last'.status # "200"
                 /\ transactions' = transactions
                 /\ accounts' = accounts
       /\ last'.op = "update_transaction" =>
             \A a \in DOMAIN accounts :
                 accounts[a].is_archived = TRUE =>
                     accounts'[a].balance = accounts[a].balance]_vars

----------------------------------------------------------------------------
(* C36: create_transaction naming an account that the acting user neither
   owns nor shares through a group they are a member of is rejected and
   changes no balance. *)
C36_OnlyOwnAccounts ==
    [][\A u \in DOMAIN users, d \in SharedTxInputs :
          (/\ d.account_id \in DOMAIN accounts
           /\ accounts[d.account_id].user_id # u
           /\ ~(/\ accounts[d.account_id].group_id \in DOMAIN groups
                /\ u \in groups[accounts[d.account_id].group_id].members)
           /\ CreateTransaction(u, d)) =>
              /\ last'.status # "201"
              /\ accounts' = accounts]_vars

(* C37: create_transaction with a group_id stores a transaction only when
   the acting user is a member of that group. *)
C37_CreatorIsGroupMember ==
    [][\A u \in DOMAIN users, d \in SharedTxInputs :
          (/\ d.group_id # None
           /\ ~(d.group_id \in DOMAIN groups /\ u \in groups[d.group_id].members)
           /\ CreateTransaction(u, d)) =>
              /\ last'.status # "201"
              /\ transactions' = transactions]_vars

----------------------------------------------------------------------------
(* Summaries: group 1 and its members post expenses of 30 on the owner's
   account, personal or for the group, and every user asks for the month's
   summary *)

RECURSIVE total_amount(_)
(* $sum of $amount over the transactions of the set S *)
total_amount(S) ==
    IF S = {} THEN 0
    ELSE LET t == CHOOSE x \in S : TRUE
         IN transactions[t].amount + total_amount(S \ {t})

(* _calculate_summary (lines 338-365): the transactions dated in the month
   that carry the group_id asked for, or, when none is asked for, the acting
   user's own with group_id null; grouped by type, 0 for a type without any *)
calculate_summary(u, month, group_id) ==
    LET matched == {t \in DOMAIN transactions :
                       /\ transactions[t].transaction_date >= month * MonthLen
                       /\ transactions[t].transaction_date < (month + 1) * MonthLen
                       /\ transactions[t].group_id = group_id
                       /\ group_id = None => transactions[t].user_id = u}
    IN [income |-> total_amount({t \in matched : transactions[t].type = "income"}),
        expense |-> total_amount({t \in matched : transactions[t].type = "expense"})]

(* get_transaction_summary: the summaries of the month and of the month
   before it *)
GetTransactionSummary(u, month, group_id) ==
    /\ last' = WithItems(Ok("get_transaction_summary"),
                   {[current_month |-> calculate_summary(u, month, group_id),
                     previous_month |-> calculate_summary(u, month - 1, group_id)]})
    /\ UNCHANGED <<authVars, ledgerVars, nextId>>

SummariesNext ==
    \/ \E d \in AccountInputs : CreateAccount(Owner, d) /\ UNCHANGED log
    \/ \E u \in DOMAIN users, d \in SharedTxInputs :
            CreateTransaction(u, d) /\ UNCHANGED log
    \/ \E u \in DOMAIN users, m \in {0, 1}, g \in {None, 1} :
            GetTransactionSummary(u, m, g) /\ UNCHANGED log

SpecSummaries == SharedInit /\ [][SummariesNext]_vars

(* C38: get_transaction_summary with a group_id fails, with no totals in
   the answer, when the acting user is not a member of that group, and
   answers 200 when the acting user is a member. *)
C38_SummaryNeedsMembership ==
    [][\A u \in DOMAIN users, m \in {0, 1} :
          GetTransactionSummary(u, m, 1) =>
              IF 1 \in DOMAIN groups /\ u \in groups[1].members
              THEN last'.status = "200"
              ELSE /\ last'.status \in {"403", "404"}
                   /\ last'.items = {}]_vars

----------------------------------------------------------------------------
(* archive_account and create_transaction of the owner, concurrently, on the
   account opened with balance 0.  Each client of Procs has one call in
   flight, an archive_account of account 1 or a create_transaction of an
   expense; the database steps of the calls interleave. *)

ArchiveRaceInit ==
    /\ users = SeedUsers
    /\ sessions = Empty
    /\ groups = SeedGroups
    /\ categories = SeedCategories
    /\ accounts = [a \in {1} |-> [ScenarioAccount EXCEPT !.initial_balance = 0,
                                                         !.balance = 0]]
    /\ transactions = Empty
    /\ nextId = [account |-> 2, tx |-> 1, category |-> 3, group |-> 2,
                 user |-> 3, session |-> 1, token |-> 1]
    /\ now = 0
    /\ proc \in [Procs ->
                   {TxProc("read", [account_id |-> 1], NoResponse)}
                       \cup {TxProc("find", d, NoResponse) :
                                d \in {r \in RaceTxInputs : r.type = "expense"}}]
    /\ hist = [used |-> {}, rotated |-> {}, loggedOut |-> {}, verifiedBy |-> {},
               subs |-> {1, 2}]
    /\ last = NoResponse
    /\ log = <<>>

(* archive_account, lines 103-112: find_one({_id, user_id}) and the test of
   the balance of the document read *)
ArchiveRead(p) ==
    /\ proc[p].pc = "read"
    /\ LET a == proc[p].req.account_id
       IN proc' = [proc EXCEPT ![p] =
              IF ~(a \in DOMAIN accounts /\ accounts[a].user_id = Owner)
              THEN TxProc("done", proc[p].req, NotFound("archive_account"))
              ELSE IF accounts[a].balance # 0
              THEN TxProc("done", proc[p].req, BadRequest("archive_account"))
              ELSE TxProc("write", proc[p].req, NoResponse)]
    /\ UNCHANGED <<authVars_but_proc, ledgerVars, nextId, last, log>>

(* archive_account, line 114: update_one({_id}, {$set: {is_archived: True}}) *)
ArchiveWrite(p) ==
    /\ proc[p].pc = "write"
    /\ accounts' = [accounts EXCEPT ![proc[p].req.account_id].is_archived = TRUE]
    /\ proc' = [proc EXCEPT ![p] =
                    TxProc("done", proc[p].req, NoContent("archive_account"))]
    /\ UNCHANGED <<authVars_but_proc, groups, categories, transactions, nextId, last, log>>

ArchiveRaceNext ==
    \/ \E p \in Procs : ArchiveRead(p)
    \/ \E p \in Procs : ArchiveWrite(p)
    \/ \E p \in Procs : TxFind(p)
    \/ \E p \in Procs : TxInsert(p)
    \/ \E p \in Procs : TxInc(p)

SpecArchiveRace == ArchiveRaceInit /\ [][ArchiveRaceNext]_vars

(* C39: once the concurrent archive_account and create_transaction calls on
   the zero-balance account have completed, whatever the interleaving of
   their steps, the account is not archived with a balance other than 0. *)
C39_NeverArchivedWithBalance ==
    (\A p \in Procs : proc[p].pc = "done") =>
        ~(accounts[1].is_archived = TRUE /\ accounts[1].balance # 0)

----------------------------------------------------------------------------
(* Group edits: every user posts expenses on the owner's account, personal
   or for group 1, naming a payer or not, and moves their own transactions
   into the group or out of it *)

(* UpdateTransactionRequest with group_id alone: a group, or an explicit null *)
GroupEditPatches == [set : {{"group_id"}}, group_id : {None, 1}]

GroupEditsNext ==
    \/ \E d \in AccountInputs : CreateAccount(Owner, d) /\ UNCHANGED log
    \/ \E u \in DOMAIN users, d \in SharedTxInputs :
            CreateTransaction(u, d) /\ UNCHANGED log
    \/ \E u \in DOMAIN users, t \in 1 .. MaxTx, p \in GroupEditPatches :
            UpdateTransaction(u, t, p) /\ UNCHANGED log

SpecGroupEdits == SharedInit /\ [][GroupEditsNext]_vars

(* C40: in every state reached by create_transaction and update_transaction
   (group memberships do not change meanwhile), a stored transaction with
   group_id null has payer_id equal to its user_id, and a stored transaction
   with a group_id has a payer_id that is a member of that group. *)
C40_PayerInvariant ==
    \A t \in DOMAIN transactions :
        IF transactions[t].group_id = None
        THEN transactions[t].payer_id = transactions[t].user_id
        ELSE /\ transactions[t].group_id \in DOMAIN groups
             /\ transactions[t].payer_id \in groups[transactions[t].group_id].members

====
